---- MODULE Spec2Model ----
(***************************************************************************)
(* BlackHole virtual loopback audio driver (BlackHole/BlackHole.c).        *)
(*                                                                         *)
(* The state is the driver's file-scope globals, the two function-static   *)
(* variables of BlackHole_DoIOOperation, the host clock, the configuration *)
(* change requests handed to the host and not yet answered, and a record   *)
(* of the most recent driver call with what it returned.  Every driver     *)
(* entry point is one action.                                              *)
(*                                                                         *)
(* Numbers.  Float64/Float32 values are modelled by exact integers: the    *)
(* host clock frequency and the sample rates that are requested are chosen *)
(* so that every quotient the code computes is a whole number; the volume  *)
(* gain is kept in thousandths and the pitch in quarters.  UInt64 run      *)
(* counters keep a width (CounterBits) and wrap modulo 2^CounterBits.      *)
(***************************************************************************)
EXTENDS Integers, Sequences, FiniteSets, TLC

(***************************************************************************)
(* Bounds of the model                                                     *)
(***************************************************************************)
\* width in bits of the run counters (UInt64 in the source)
CounterBits == 2
\* frames of the ring buffer besides the latency padding (65536 in the source)
RingFrames == 2
\* largest sample time the host hands to an IO cycle
MaxSampleTime == 3
\* number of steps the host clock advances
MaxTicks == 3
\* configuration change requests in flight at the host
MaxPending == 2
\* client threads that call into the driver at the same time
NumThreads == 2
\* pids the system has for the children of the companion client
MaxProcesses == 2
\* arguments on the command line of the companion client, its name included
MaxArgc == 5

(***************************************************************************)
(* Program constants                                                       *)
(***************************************************************************)
kObjectID_Box == 2
kObjectID_Device == 3
kObjectID_Stream_Input == 4
kObjectID_Volume_Input_Master == 5
kObjectID_Mute_Input_Master == 6
kObjectID_Stream_Output == 7
kObjectID_Volume_Output_Master == 8
kObjectID_Mute_Output_Master == 9
kObjectID_Pitch_Adjust == 10
kObjectID_ClockSource == 11
kObjectID_Device2 == 12

ChangeAction_SetSampleRate == 1
ChangeAction_EnablePitchControl == 2
ChangeAction_DisablePitchControl == 3

kLatency_Frame_Size == 0
kNumber_Of_Channels == 2
kDevice_RingBufferSize == 16384
kClockSource_NumberItems == 2
kVolume_MinDB == -64
kVolume_MaxDB == 0

kRing_Buffer_Frame_Size == RingFrames + kLatency_Frame_Size

kDevice_SampleRates ==
    << 8000, 16000, 24000, 44100, 48000, 88200, 96000, 176400, 192000,
       352800, 384000, 705600, 768000 >>

UINT64_MAX == (2 ^ CounterBits) - 1

\* OSStatus values, by their four-character codes
kAudioHardwareNoError == "noErr"
kAudioHardwareUnspecifiedError == "what"
kAudioHardwareBadObjectError == "!obj"
kAudioHardwareIllegalOperationError == "nope"
kAudioHardwareUnknownPropertyError == "who?"
kAudioDeviceUnsupportedFormatError == "!dat"

kAudioServerPlugInIOOperationReadInput == "ReadInput"
kAudioServerPlugInIOOperationWriteMix == "WriteMix"

NULL == << >>

(***************************************************************************)
(* State                                                                   *)
(***************************************************************************)
VARIABLES
    gDevice_SampleRate,
    gDevice_RequestedSampleRate,
    gDevice_IOIsRunning,
    gDevice2_IOIsRunning,
    gDevice_HostTicksPerFrame,
    gDevice_AdjustedTicksPerFrame,
    gDevice_PreviousTicks,
    gDevice_NumberTimeStamps,
    gDevice_AnchorSampleTime,
    gDevice_AnchorHostTime,
    gVolume_Master_Value,
    gPitch_Adjust,
    gMute_Master_Value,
    gClockSource_Value,
    gPitch_Adjust_Enabled,
    gRingBuffer,
    lastOutputSampleTime,
    isBufferClear,
    hostTime,
    configRequests,
    lastCall,
    zeroTimeStamp,
    memFault,
    threads,
    build,
    gDeviceId,
    subprocessPID,
    processes,
    clientPC,
    lastEvent,
    gPlugIn_StateMutex,
    gDevice_IOMutex,
    writtenInSession,
    ioStarted,
    argc,
    gAppArgv

counters == << gDevice_IOIsRunning, gDevice2_IOIsRunning >>
clock == << gDevice_PreviousTicks, gDevice_NumberTimeStamps,
            gDevice_AnchorSampleTime, gDevice_AnchorHostTime >>
rate == << gDevice_SampleRate, gDevice_RequestedSampleRate,
           gDevice_HostTicksPerFrame, gDevice_AdjustedTicksPerFrame >>
controls == << gVolume_Master_Value, gPitch_Adjust, gMute_Master_Value,
               gClockSource_Value, gPitch_Adjust_Enabled >>
transport == << gRingBuffer, lastOutputSampleTime, isBufferClear, memFault >>
companion == << gDeviceId, subprocessPID, processes, clientPC, lastEvent, argc, gAppArgv >>
locks == << gPlugIn_StateMutex, gDevice_IOMutex >>

vars == << gDevice_SampleRate, gDevice_RequestedSampleRate,
           gDevice_IOIsRunning, gDevice2_IOIsRunning,
           gDevice_HostTicksPerFrame, gDevice_AdjustedTicksPerFrame,
           gDevice_PreviousTicks, gDevice_NumberTimeStamps,
           gDevice_AnchorSampleTime, gDevice_AnchorHostTime,
           gVolume_Master_Value, gPitch_Adjust, gMute_Master_Value,
           gClockSource_Value, gPitch_Adjust_Enabled, gRingBuffer,
           lastOutputSampleTime, isBufferClear, hostTime,
           configRequests, lastCall, zeroTimeStamp, memFault,
           threads, build, gDeviceId, subprocessPID, processes, clientPC,
           lastEvent, gPlugIn_StateMutex, gDevice_IOMutex, writtenInSession, ioStarted,
           argc, gAppArgv >>

(***************************************************************************)
(* Number representations and the host environment                         *)
(***************************************************************************)
\* a Float32 gain g is kept as g * GainOne
GainOne == 10 * 100
\* a Float32 pitch p is kept as p * PitchOne
PitchOne == 2 * 2
\* mach_absolute_time() when the driver is loaded, and the step of the host clock
BootTime == 12345 + 0 * kDevice_RingBufferSize
TickStep == 200 * kDevice_RingBufferSize

\* mach_timebase_info() of the machine: a 19.2 MHz host clock
mach_timebase_info == [numer |-> 625, denom |-> 12]

\* (Float64)denom / (Float64)numer * 1000000000.0
HostClockFrequency == (1000000000 \div mach_timebase_info.numer) * mach_timebase_info.denom

DeviceIDs == {kObjectID_Device, kObjectID_Device2}
ChangeActions == {ChangeAction_SetSampleRate, ChangeAction_EnablePitchControl,
                  ChangeAction_DisablePitchControl}

(***************************************************************************)
(* Pure functions of the driver                                            *)
(***************************************************************************)
is_valid_sample_rate_Positive(sample_rate) == sample_rate > 0
is_valid_sample_rate(sample_rate) ==
    \E i \in 1..Len(kDevice_SampleRates) : sample_rate = kDevice_SampleRates[i]

\* theHostClockFrequency / gDevice_SampleRate
HostTicksPerFrame_Wrong(sampleRate) == HostClockFrequency \div 48000
HostTicksPerFrame(sampleRate) == HostClockFrequency \div sampleRate

\* ticksPerFrame - ticksPerFrame/100.0 * 2.0*(gPitch_Adjust - 0.5)
AdjustedTicksPerFrame_Tenth(ticksPerFrame, pitch) ==
    ticksPerFrame - ((ticksPerFrame \div 10) * (2 * pitch - PitchOne)) \div PitchOne
AdjustedTicksPerFrame(ticksPerFrame, pitch) ==
    ticksPerFrame - ((ticksPerFrame \div 100) * (2 * pitch - PitchOne)) \div PitchOne

\* powf(10.0f, decibel / 20.0f), for the decibel values the model uses
powf10(decibel) ==
    CASE decibel = 0 -> GainOne
      [] decibel = -20 -> GainOne \div 10
      [] decibel = -40 -> GainOne \div 100

volume_from_decibel(decibel) ==
    IF decibel <= kVolume_MinDB THEN 0 ELSE powf10(decibel)

\* scalar is kept in sixteenths: scalar * (kVolume_MaxDB - kVolume_MinDB) + kVolume_MinDB
volume_from_scalar(scalar16) ==
    volume_from_decibel((scalar16 * (kVolume_MaxDB - kVolume_MinDB)) \div 16 + kVolume_MinDB)

(***************************************************************************)
(* Initial state: the static initialisers, then BlackHole_Initialize       *)
(***************************************************************************)
\* the threads of the host's clients; a thread that is in no driver call is idle
Threads == 1..NumThreads

\* a mutex is free, or held by a thread
PTHREAD_MUTEX_INITIALIZER == 0
Idle == [pc |-> "idle"]

NoZeroTimeStamp == [valid |-> FALSE, sampleTime |-> 0, hostTime |-> 0, seed |-> 0]

(***************************************************************************)
(* The object tables of the two devices                                    *)
(***************************************************************************)
kObjectType_Stream == "Stream"
kObjectType_Control == "Control"

kAudioObjectPropertyScopeGlobal == "glob"
kAudioObjectPropertyScopeInput == "inpt"
kAudioObjectPropertyScopeOutput == "outp"
Scopes == {kAudioObjectPropertyScopeGlobal, kAudioObjectPropertyScopeInput,
           kAudioObjectPropertyScopeOutput}

kAudioObjectPropertyOwnedObjects == "ownd"
kAudioDevicePropertyStreams == "stm#"
kAudioObjectPropertyControlList == "ctrl"
ListSelectors == {kAudioObjectPropertyOwnedObjects, kAudioDevicePropertyStreams,
                  kAudioObjectPropertyControlList}

SizeOfAudioObjectID == 4

\* the directions a build gives the two devices
Builds ==
    [kDevice_HasInput : BOOLEAN, kDevice_HasOutput : BOOLEAN,
     kDevice2_HasInput : BOOLEAN, kDevice2_HasOutput : BOOLEAN]
DefaultBuild ==
    [kDevice_HasInput |-> TRUE, kDevice_HasOutput |-> TRUE,
     kDevice2_HasInput |-> TRUE, kDevice2_HasOutput |-> TRUE]
\* the build of BlackHoleTests
TestBuild ==
    [kDevice_HasInput |-> FALSE, kDevice_HasOutput |-> TRUE,
     kDevice2_HasInput |-> TRUE, kDevice2_HasOutput |-> TRUE]

ObjectInfo(id, type, scope) == [id |-> id, type |-> type, scope |-> scope]

kDevice_ObjectList ==
    (IF build.kDevice_HasInput
     THEN << ObjectInfo(kObjectID_Stream_Input, kObjectType_Stream,
                        kAudioObjectPropertyScopeInput),
             ObjectInfo(kObjectID_Volume_Input_Master, kObjectType_Control,
                        kAudioObjectPropertyScopeInput),
             ObjectInfo(kObjectID_Mute_Input_Master, kObjectType_Control,
                        kAudioObjectPropertyScopeInput) >>
     ELSE << >>)
    \o (IF build.kDevice_HasOutput
        THEN << ObjectInfo(kObjectID_Stream_Output, kObjectType_Stream,
                           kAudioObjectPropertyScopeOutput),
                ObjectInfo(kObjectID_Volume_Output_Master, kObjectType_Control,
                           kAudioObjectPropertyScopeOutput),
                ObjectInfo(kObjectID_Mute_Output_Master, kObjectType_Control,
                           kAudioObjectPropertyScopeOutput),
                ObjectInfo(kObjectID_Pitch_Adjust, kObjectType_Control,
                           kAudioObjectPropertyScopeOutput) >>
        ELSE << >>)
    \o << ObjectInfo(kObjectID_ClockSource, kObjectType_Control,
                     kAudioObjectPropertyScopeGlobal) >>

kDevice2_ObjectList ==
    (IF build.kDevice2_HasInput
     THEN << ObjectInfo(kObjectID_Stream_Input, kObjectType_Stream,
                        kAudioObjectPropertyScopeInput),
             ObjectInfo(kObjectID_Volume_Input_Master, kObjectType_Control,
                        kAudioObjectPropertyScopeInput),
             ObjectInfo(kObjectID_Mute_Input_Master, kObjectType_Control,
                        kAudioObjectPropertyScopeInput) >>
     ELSE << >>)
    \o (IF build.kDevice2_HasOutput
        THEN << ObjectInfo(kObjectID_Stream_Output, kObjectType_Stream,
                           kAudioObjectPropertyScopeOutput),
                ObjectInfo(kObjectID_Volume_Output_Master, kObjectType_Control,
                           kAudioObjectPropertyScopeOutput),
                ObjectInfo(kObjectID_Mute_Output_Master, kObjectType_Control,
                           kAudioObjectPropertyScopeOutput) >>
        ELSE << >>)

kDevice_ObjectListSize == Len(kDevice_ObjectList)
kDevice2_ObjectListSize == Len(kDevice2_ObjectList)

\* count += (condition), over a table
CountWhere(flags) == Cardinality({i \in 1..Len(flags) : flags[i]})

\* kDevice_ObjectList[i].scope == scope, for every i
ScopeIs(list, scope) == [i \in 1..Len(list) |-> list[i].scope = scope]

\* list[i].scope == scope || scope == kAudioObjectPropertyScopeGlobal, for every i
InScope(list, scope) ==
    [i \in 1..Len(list) |->
        list[i].scope = scope \/ scope = kAudioObjectPropertyScopeGlobal]

\* list[i].type == type && (list[i].scope == scope || scope == Global), for every i
TypeInScope(list, type, scope) ==
    [i \in 1..Len(list) |->
        /\ list[i].type = type
        /\ (list[i].scope = scope \/ scope = kAudioObjectPropertyScopeGlobal)]

\* list[i].type == kObjectType_Control
\*     && !(!gPitch_Adjust_Enabled && list[i].id == kObjectID_Pitch_Adjust), for every i
ControlShown(list, pitchEnabled) ==
    [i \in 1..Len(list) |->
        /\ list[i].type = kObjectType_Control
        /\ ~(~pitchEnabled /\ list[i].id = kObjectID_Pitch_Adjust)]

device_object_list_size(scope, objectID) ==
    CASE objectID = kObjectID_Device ->
             IF scope = kAudioObjectPropertyScopeGlobal
             THEN kDevice_ObjectListSize
             ELSE CountWhere(ScopeIs(kDevice_ObjectList, scope))
      [] objectID = kObjectID_Device2 ->
             IF scope = kAudioObjectPropertyScopeGlobal
             THEN kDevice2_ObjectListSize
             ELSE CountWhere(ScopeIs(kDevice2_ObjectList, scope))
      [] OTHER -> 0

device_stream_list_size_AnyType(scope, objectID) == device_object_list_size(scope, objectID)
device_stream_list_size(scope, objectID) ==
    CASE objectID = kObjectID_Device ->
             CountWhere(TypeInScope(kDevice_ObjectList, kObjectType_Stream, scope))
      [] objectID = kObjectID_Device2 ->
             CountWhere(TypeInScope(kDevice2_ObjectList, kObjectType_Stream, scope))
      [] OTHER -> 0

device_control_list_size(scope, objectID) ==
    CASE objectID = kObjectID_Device ->
             CountWhere(TypeInScope(kDevice_ObjectList, kObjectType_Control, scope))
      [] objectID = kObjectID_Device2 ->
             CountWhere(TypeInScope(kDevice2_ObjectList, kObjectType_Control, scope))
      [] OTHER -> 0

minimum(a, b) == IF a < b THEN a ELSE b

\* for (UInt32 i = 0, k = 0; k < theNumberItemsToFetch; i++)
\*     if (test[i]) outData[k++] = list[i].id;
\* i is counted from 1 here; the loop has no bound on i, and overran is whether it
\* read past the end of the table it tests or of the table it copies from
RECURSIVE FetchLoop(_, _, _, _, _)
FetchLoop(list, test, theNumberItemsToFetch, i, outData) ==
    IF Len(outData) >= theNumberItemsToFetch
    THEN [outData |-> outData, overran |-> FALSE]
    ELSE IF i > Len(test) \/ i > Len(list)
    THEN [outData |-> outData, overran |-> TRUE]
    ELSE FetchLoop(list, test, theNumberItemsToFetch, i + 1,
                   IF test[i] THEN Append(outData, list[i].id) ELSE outData)

\* what a read past the end of a table can put in outData
StrayIDs == {0, kObjectID_ClockSource, kObjectID_Device2}

\* the driver's globals after BlackHole_Initialize
InitDriver ==
    /\ gDevice_SampleRate = 48000
    /\ gDevice_RequestedSampleRate = 0
    /\ gDevice_IOIsRunning = 0
    /\ gDevice2_IOIsRunning = 0
    /\ gDevice_HostTicksPerFrame = HostTicksPerFrame(48000)
    /\ gDevice_AdjustedTicksPerFrame =
           AdjustedTicksPerFrame(HostTicksPerFrame(48000), PitchOne \div 2)
    /\ gDevice_PreviousTicks = 0
    /\ gDevice_NumberTimeStamps = 0
    /\ gDevice_AnchorSampleTime = 0
    /\ gDevice_AnchorHostTime = 0
    /\ gVolume_Master_Value = GainOne
    /\ gPitch_Adjust = PitchOne \div 2
    /\ gMute_Master_Value = FALSE
    /\ gClockSource_Value = 0
    /\ gPitch_Adjust_Enabled = FALSE
    /\ gRingBuffer = NULL
    /\ lastOutputSampleTime = 0
    /\ isBufferClear = TRUE
    /\ hostTime = BootTime
    /\ configRequests = [a \in ChangeActions |-> 0]
    /\ lastCall = [op |-> "Initialize", status |-> kAudioHardwareNoError]
    /\ zeroTimeStamp = NoZeroTimeStamp
    /\ memFault = FALSE
    /\ threads = [t \in Threads |-> Idle]
    /\ gPlugIn_StateMutex = PTHREAD_MUTEX_INITIALIZER
    /\ gDevice_IOMutex = PTHREAD_MUTEX_INITIALIZER
    /\ writtenInSession = FALSE
    /\ ioStarted = [t \in Threads |-> 0]

\* the companion client before its main has run
NoEvent == [eventMessage |-> 0, deviceId |-> 0, event |-> 0, forked |-> 0, killed |-> 0]

\* static char** gAppArgv: no array yet
NoAppArgv == [cells |-> << >>, outside |-> {}]

\* the client started with n words on its command line
InitCompanionWith(n) ==
    /\ gDeviceId = 0
    /\ subprocessPID = 0 - 1
    /\ processes = {}
    /\ clientPC = "main"
    /\ lastEvent = NoEvent
    /\ argc = n
    /\ gAppArgv = NoAppArgv

\* started as: BlackHoleClient (device id) (app path)
InitCompanion == InitCompanionWith(3)

Init ==
    /\ InitDriver
    /\ build = DefaultBuild
    /\ InitCompanion

\* the companion client started with any number of arguments
InitStartup ==
    /\ InitDriver
    /\ build = DefaultBuild
    /\ \E n \in 1..MaxArgc : InitCompanionWith(n)

\* the driver in any of its builds
InitBuilds ==
    /\ InitDriver
    /\ build \in Builds
    /\ InitCompanion

(***************************************************************************)
(* The host clock                                                          *)
(***************************************************************************)
\* mach_absolute_time() is monotonic; it advances between driver calls
Tick ==
    /\ hostTime < BootTime + MaxTicks * TickStep
    /\ hostTime' = hostTime + TickStep
    /\ UNCHANGED << counters, clock, rate, controls, transport,
                    configRequests, lastCall, zeroTimeStamp >>

(***************************************************************************)
(* BlackHole_StartIO and BlackHole_StopIO                                  *)
(***************************************************************************)
\* calloc(kRing_Buffer_Frame_Size * kNumber_Of_Channels, sizeof(Float32)), succeeding
calloc_Uncleared(count) == [i \in 1..count |-> GainOne]
calloc(count) == [i \in 1..count |-> 0]

\* the two overflow checks of BlackHole_StartIO
StartIO_Overflow_Unchecked(inDeviceObjectID) == FALSE
StartIO_Overflow(inDeviceObjectID) ==
    \/ inDeviceObjectID = kObjectID_Device /\ gDevice_IOIsRunning = UINT64_MAX
    \/ inDeviceObjectID = kObjectID_Device2 /\ gDevice2_IOIsRunning = UINT64_MAX

\* (gDevice_IOIsRunning || gDevice2_IOIsRunning) && gRingBuffer == NULL
StartIO_Allocates_Device1Only(running, running2, ringBuffer) ==
    running # 0 /\ ringBuffer = NULL
StartIO_Allocates_Always(running, running2, ringBuffer) ==
    running # 0 \/ running2 # 0
StartIO_Allocates(running, running2, ringBuffer) ==
    (running # 0 \/ running2 # 0) /\ ringBuffer = NULL

\* BlackHole_StartIO between pthread_mutex_lock and pthread_mutex_unlock of
\* gPlugIn_StateMutex, with what its calloc returns: the zeroed buffer, or NULL
StartIO_Locked(inDeviceObjectID, allocation) ==
    /\ gDevice_IOIsRunning' =
           IF inDeviceObjectID = kObjectID_Device
           THEN (gDevice_IOIsRunning + 1) % (2 ^ CounterBits)
           ELSE gDevice_IOIsRunning
    /\ gDevice2_IOIsRunning' =
           IF inDeviceObjectID = kObjectID_Device2
           THEN (gDevice2_IOIsRunning + 1) % (2 ^ CounterBits)
           ELSE gDevice2_IOIsRunning
    /\ IF StartIO_Allocates(gDevice_IOIsRunning', gDevice2_IOIsRunning', gRingBuffer)
       THEN /\ gDevice_NumberTimeStamps' = 0
            /\ gDevice_AnchorSampleTime' = 0
            /\ gDevice_AnchorHostTime' = hostTime
            /\ gDevice_PreviousTicks' = 0
            /\ gRingBuffer' = allocation
       ELSE UNCHANGED << clock, gRingBuffer >>
    \* a new IO session begins when neither device was running
    /\ zeroTimeStamp' = IF gDevice_IOIsRunning = 0 /\ gDevice2_IOIsRunning = 0
                        THEN NoZeroTimeStamp
                        ELSE zeroTimeStamp
    /\ lastCall' = [op |-> "StartIO", device |-> inDeviceObjectID,
                    status |-> kAudioHardwareNoError]
    /\ UNCHANGED << rate, controls, lastOutputSampleTime, isBufferClear,
                    memFault, hostTime, configRequests >>

\* BlackHole_StartIO: the checks of its arguments, then the locked part
StartIO(inDeviceObjectID, allocation) ==
    IF inDeviceObjectID \notin DeviceIDs
    THEN /\ lastCall' = [op |-> "StartIO", device |-> inDeviceObjectID,
                         status |-> kAudioHardwareBadObjectError]
         /\ UNCHANGED << counters, clock, rate, controls, transport, hostTime,
                         configRequests, zeroTimeStamp >>
    ELSE IF StartIO_Overflow(inDeviceObjectID)
    THEN /\ lastCall' = [op |-> "StartIO", device |-> inDeviceObjectID,
                         status |-> kAudioHardwareIllegalOperationError]
         /\ UNCHANGED << counters, clock, rate, controls, transport, hostTime,
                         configRequests, zeroTimeStamp >>
    ELSE StartIO_Locked(inDeviceObjectID, allocation)

\* the call when the allocation succeeds
BlackHole_StartIO(inDeviceObjectID) ==
    StartIO(inDeviceObjectID, calloc(kRing_Buffer_Frame_Size * kNumber_Of_Channels))

\* the call when there is no memory left: calloc returns NULL
BlackHole_StartIO_NoMemory(inDeviceObjectID) ==
    StartIO(inDeviceObjectID, NULL)

\* the two underflow checks of BlackHole_StopIO
StopIO_Underflow_Unchecked(inDeviceObjectID) == FALSE
StopIO_Underflow(inDeviceObjectID) ==
    \/ inDeviceObjectID = kObjectID_Device /\ gDevice_IOIsRunning = 0
    \/ inDeviceObjectID = kObjectID_Device2 /\ gDevice2_IOIsRunning = 0

\* !gDevice_IOIsRunning && !gDevice2_IOIsRunning && gRingBuffer != NULL
StopIO_Frees_EitherIdle(running, running2, ringBuffer) ==
    (running = 0 \/ running2 = 0) /\ ringBuffer # NULL

StopIO_Frees_OnlyDevice(running, running2, ringBuffer) ==
    running = 0 /\ ringBuffer # NULL
StopIO_Frees(running, running2, ringBuffer) ==
    running = 0 /\ running2 = 0 /\ ringBuffer # NULL

\* BlackHole_StopIO between pthread_mutex_lock and pthread_mutex_unlock of
\* gPlugIn_StateMutex
StopIO_Locked(inDeviceObjectID) ==
    /\ gDevice_IOIsRunning' =
           IF inDeviceObjectID = kObjectID_Device
           THEN (gDevice_IOIsRunning - 1) % (2 ^ CounterBits)
           ELSE gDevice_IOIsRunning
    /\ gDevice2_IOIsRunning' =
           IF inDeviceObjectID = kObjectID_Device2
           THEN (gDevice2_IOIsRunning - 1) % (2 ^ CounterBits)
           ELSE gDevice2_IOIsRunning
    /\ gRingBuffer' =
           IF StopIO_Frees(gDevice_IOIsRunning', gDevice2_IOIsRunning', gRingBuffer)
           THEN NULL
           ELSE gRingBuffer
    /\ lastCall' = [op |-> "StopIO", device |-> inDeviceObjectID,
                    status |-> kAudioHardwareNoError]
    /\ UNCHANGED << clock, rate, controls, lastOutputSampleTime, isBufferClear,
                    memFault, hostTime, configRequests, zeroTimeStamp >>

BlackHole_StopIO(inDeviceObjectID) ==
    IF inDeviceObjectID \notin DeviceIDs
    THEN /\ lastCall' = [op |-> "StopIO", device |-> inDeviceObjectID,
                         status |-> kAudioHardwareBadObjectError]
         /\ UNCHANGED << counters, clock, rate, controls, transport, hostTime,
                         configRequests, zeroTimeStamp >>
    ELSE IF StopIO_Underflow(inDeviceObjectID)
    THEN /\ lastCall' = [op |-> "StopIO", device |-> inDeviceObjectID,
                         status |-> kAudioHardwareIllegalOperationError]
         /\ UNCHANGED << counters, clock, rate, controls, transport, hostTime,
                         configRequests, zeroTimeStamp >>
    ELSE StopIO_Locked(inDeviceObjectID)

(***************************************************************************)
(* BlackHole_GetZeroTimeStamp                                              *)
(***************************************************************************)
\* gDevice_PreviousTicks after the boundary was passed
NextTickOffset_Recomputed(previousTicks, numberTimeStamps, ticksPerRingBuffer) ==
    (numberTimeStamps + 1) * ticksPerRingBuffer
NextTickOffset(previousTicks, numberTimeStamps, ticksPerRingBuffer) ==
    previousTicks + ticksPerRingBuffer

ZeroTimeStampDue_Always(theNextHostTime, theCurrentHostTime) == TRUE

ZeroTimeStampDue_Never(theNextHostTime, theCurrentHostTime) == FALSE

\* if(theNextHostTime <= theCurrentHostTime)
ZeroTimeStampDue(theNextHostTime, theCurrentHostTime) ==
    theNextHostTime <= theCurrentHostTime

BlackHole_GetZeroTimeStamp(inDeviceObjectID) ==
    IF inDeviceObjectID \notin DeviceIDs
    THEN /\ lastCall' = [op |-> "GetZeroTimeStamp", device |-> inDeviceObjectID,
                         status |-> kAudioHardwareBadObjectError]
         /\ UNCHANGED << counters, clock, rate, controls, transport, hostTime,
                         configRequests, zeroTimeStamp >>
    ELSE LET theCurrentHostTime == hostTime
             theAdjustedTicksPerRingBuffer ==
                 IF gClockSource_Value > 0
                 THEN gDevice_AdjustedTicksPerFrame * kDevice_RingBufferSize
                 ELSE gDevice_HostTicksPerFrame * kDevice_RingBufferSize
             theNextTickOffset ==
                 NextTickOffset(gDevice_PreviousTicks, gDevice_NumberTimeStamps,
                                theAdjustedTicksPerRingBuffer)
             theNextHostTime == gDevice_AnchorHostTime + theNextTickOffset
         IN /\ IF ZeroTimeStampDue(theNextHostTime, theCurrentHostTime)
               THEN /\ gDevice_NumberTimeStamps' = gDevice_NumberTimeStamps + 1
                    /\ gDevice_PreviousTicks' = theNextTickOffset
               ELSE UNCHANGED << gDevice_NumberTimeStamps, gDevice_PreviousTicks >>
            /\ zeroTimeStamp' =
                   [valid |-> TRUE,
                    sampleTime |-> gDevice_NumberTimeStamps' * kDevice_RingBufferSize,
                    hostTime |-> gDevice_AnchorHostTime + gDevice_PreviousTicks',
                    seed |-> 1]
            /\ lastCall' = [op |-> "GetZeroTimeStamp", device |-> inDeviceObjectID,
                            status |-> kAudioHardwareNoError]
            /\ UNCHANGED << counters, gDevice_AnchorSampleTime, gDevice_AnchorHostTime,
                            rate, controls, transport, hostTime, configRequests >>

(***************************************************************************)
(* BlackHole_DoIOOperation                                                 *)
(***************************************************************************)
\* memcpy of count samples from src (at srcOffset) to dst (at dstOffset); offsets from 0
memcpy(dst, dstOffset, src, srcOffset, count) ==
    [i \in 1..Len(dst) |->
        IF dstOffset < i /\ i <= dstOffset + count
        THEN src[srcOffset + (i - dstOffset)]
        ELSE dst[i]]

\* whether count samples at offset lie inside buf
InBounds(buf, offset, count) == count = 0 \/ offset + count <= Len(buf)

\* vDSP_vclr(buf, 1, count)
vDSP_vclr(buf, count) == [i \in 1..Len(buf) |-> IF i <= count THEN 0 ELSE buf[i]]

\* vDSP_vsmul(buf, 1, &gain, buf, 1, count); samples and gain are kept times GainOne
vDSP_vsmul_Unity(buf, gain, count) == buf
vDSP_vsmul(buf, gain, count) ==
    [i \in 1..Len(buf) |-> IF i <= count THEN (buf[i] * gain) \div GainOne ELSE buf[i]]

\* mSampleTime % kRing_Buffer_Frame_Size
RingBufferFrameLocationStart(mSampleTime) == mSampleTime % kRing_Buffer_Frame_Size

\* the frames copied at ringBufferFrameLocationStart
FirstPartFrameSize_OffByOne(start, inIOBufferFrameSize) ==
    IF kRing_Buffer_Frame_Size - start > inIOBufferFrameSize
    THEN inIOBufferFrameSize
    ELSE kRing_Buffer_Frame_Size - start - 1
FirstPartFrameSize(start, inIOBufferFrameSize) ==
    IF kRing_Buffer_Frame_Size - start >= inIOBufferFrameSize
    THEN inIOBufferFrameSize
    ELSE kRing_Buffer_Frame_Size - start

\* the frames copied at the head of the ring buffer
SecondPartFrameSize(start, inIOBufferFrameSize) ==
    inIOBufferFrameSize - FirstPartFrameSize(start, inIOBufferFrameSize)

\* gMute_Master_Value || lastOutputSampleTime - inIOBufferFrameSize < mInputTime.mSampleTime
ReadIsSilent_IgnoresMute(mute, lastOutput, inIOBufferFrameSize, inputSampleTime) ==
    lastOutput - inIOBufferFrameSize < inputSampleTime
ReadIsSilent(mute, lastOutput, inIOBufferFrameSize, inputSampleTime) ==
    mute \/ lastOutput - inIOBufferFrameSize < inputSampleTime

\* mCurrentTime.mSampleTime > mOutputTime.mSampleTime + inIOBufferFrameSize + kLatency_Frame_Size
IsOverload_Never(currentSampleTime, outputSampleTime, inIOBufferFrameSize) == FALSE
IsOverload(currentSampleTime, outputSampleTime, inIOBufferFrameSize) ==
    currentSampleTime > outputSampleTime + inIOBufferFrameSize + kLatency_Frame_Size

\* the caller's ioMainBuffer before a read cycle: samples the driver did not produce
Garbage(inIOBufferFrameSize) ==
    [j \in 1..(inIOBufferFrameSize * kNumber_Of_Channels) |-> 0 - GainOne]

\* the caller's ioMainBuffer for a write cycle: a tone whose sample at absolute frame
\* f and channel c is f * kNumber_Of_Channels + c + 1, never silence
Tone(sampleTime, inIOBufferFrameSize) ==
    [j \in 1..(inIOBufferFrameSize * kNumber_Of_Channels) |->
        GainOne * ((sampleTime + ((j - 1) \div kNumber_Of_Channels)) * kNumber_Of_Channels
                   + ((j - 1) % kNumber_Of_Channels) + 1)]

IOArgumentsBad(inDeviceObjectID, inStreamObjectID) ==
    \/ inDeviceObjectID \notin DeviceIDs
    \/ inStreamObjectID \notin {kObjectID_Stream_Input, kObjectID_Stream_Output}

\* inOperationID = kAudioServerPlugInIOOperationReadInput
DoIOOperation_ReadInput(inDeviceObjectID, inStreamObjectID, inIOBufferFrameSize, inputSampleTime) ==
    IF IOArgumentsBad(inDeviceObjectID, inStreamObjectID)
    THEN /\ lastCall' = [op |-> kAudioServerPlugInIOOperationReadInput,
                         status |-> kAudioHardwareBadObjectError]
         /\ UNCHANGED << counters, clock, rate, controls, transport, hostTime,
                         configRequests, zeroTimeStamp >>
    ELSE LET N == kNumber_Of_Channels
             start == RingBufferFrameLocationStart(inputSampleTime)
             first == FirstPartFrameSize(start, inIOBufferFrameSize)
             second == SecondPartFrameSize(start, inIOBufferFrameSize)
             ioMainBuffer == Garbage(inIOBufferFrameSize)
             silent == ReadIsSilent(gMute_Master_Value, lastOutputSampleTime,
                                    inIOBufferFrameSize, inputSampleTime)
             fault == IF silent
                      THEN ~isBufferClear /\ gRingBuffer = NULL
                      ELSE \/ ~InBounds(gRingBuffer, start * N, first * N)
                           \/ ~InBounds(gRingBuffer, 0, second * N)
             copied == memcpy(memcpy(ioMainBuffer, 0, gRingBuffer, start * N, first * N),
                              first * N, gRingBuffer, 0, second * N)
         IN IF fault
            THEN /\ memFault' = TRUE
                 /\ lastCall' = [op |-> kAudioServerPlugInIOOperationReadInput,
                                 status |-> kAudioHardwareNoError,
                                 sampleTime |-> inputSampleTime,
                                 frames |-> inIOBufferFrameSize,
                                 silent |-> silent,
                                 ioMainBuffer |-> ioMainBuffer]
                 /\ UNCHANGED << counters, clock, rate, controls, gRingBuffer,
                                 lastOutputSampleTime, isBufferClear, hostTime,
                                 configRequests, zeroTimeStamp >>
            ELSE /\ gRingBuffer' =
                        IF silent /\ ~isBufferClear
                        THEN vDSP_vclr(gRingBuffer, kRing_Buffer_Frame_Size * N)
                        ELSE gRingBuffer
                 /\ isBufferClear' = IF silent THEN TRUE ELSE isBufferClear
                 /\ lastCall' = [op |-> kAudioServerPlugInIOOperationReadInput,
                                 status |-> kAudioHardwareNoError,
                                 sampleTime |-> inputSampleTime,
                                 frames |-> inIOBufferFrameSize,
                                 silent |-> silent,
                                 ioMainBuffer |->
                                     IF silent
                                     THEN vDSP_vclr(ioMainBuffer, inIOBufferFrameSize * N)
                                     ELSE vDSP_vsmul(copied, gVolume_Master_Value,
                                                     inIOBufferFrameSize * N)]
                 /\ UNCHANGED << counters, clock, rate, controls, lastOutputSampleTime,
                                 memFault, hostTime, configRequests, zeroTimeStamp >>

\* inOperationID = kAudioServerPlugInIOOperationWriteMix
DoIOOperation_WriteMix(inDeviceObjectID, inStreamObjectID, inIOBufferFrameSize, outputSampleTime, currentSampleTime) ==
    IF IOArgumentsBad(inDeviceObjectID, inStreamObjectID)
    THEN /\ lastCall' = [op |-> kAudioServerPlugInIOOperationWriteMix,
                         status |-> kAudioHardwareBadObjectError]
         /\ UNCHANGED << counters, clock, rate, controls, transport, hostTime,
                         configRequests, zeroTimeStamp >>
    ELSE IF IsOverload(currentSampleTime, outputSampleTime, inIOBufferFrameSize)
    THEN /\ lastCall' = [op |-> kAudioServerPlugInIOOperationWriteMix,
                         status |-> kAudioHardwareUnspecifiedError,
                         sampleTime |-> outputSampleTime,
                         currentTime |-> currentSampleTime,
                         frames |-> inIOBufferFrameSize]
         /\ UNCHANGED << counters, clock, rate, controls, transport, hostTime,
                         configRequests, zeroTimeStamp >>
    ELSE LET N == kNumber_Of_Channels
             start == RingBufferFrameLocationStart(outputSampleTime)
             first == FirstPartFrameSize(start, inIOBufferFrameSize)
             second == SecondPartFrameSize(start, inIOBufferFrameSize)
             ioMainBuffer == Tone(outputSampleTime, inIOBufferFrameSize)
             fault == \/ ~InBounds(gRingBuffer, start * N, first * N)
                      \/ ~InBounds(gRingBuffer, 0, second * N)
         IN /\ IF fault
               THEN /\ memFault' = TRUE
                    /\ UNCHANGED gRingBuffer
               ELSE /\ gRingBuffer' =
                           memcpy(memcpy(gRingBuffer, start * N, ioMainBuffer, 0, first * N),
                                  0, ioMainBuffer, first * N, second * N)
                    /\ UNCHANGED memFault
            /\ lastOutputSampleTime' = outputSampleTime + inIOBufferFrameSize
            /\ isBufferClear' = FALSE
            /\ lastCall' = [op |-> kAudioServerPlugInIOOperationWriteMix,
                            status |-> kAudioHardwareNoError,
                            sampleTime |-> outputSampleTime,
                            currentTime |-> currentSampleTime,
                            frames |-> inIOBufferFrameSize]
            /\ UNCHANGED << counters, clock, rate, controls, hostTime,
                            configRequests, zeroTimeStamp >>

(***************************************************************************)
(* BlackHole_SetControlPropertyData                                        *)
(***************************************************************************)
Clamp(x, lo, hi) == IF x < lo THEN lo ELSE IF x > hi THEN hi ELSE x

\* the state every control setter leaves alone
ControlFrame ==
    UNCHANGED << counters, clock, gDevice_SampleRate, gDevice_RequestedSampleRate,
                 gDevice_HostTicksPerFrame, transport, hostTime, zeroTimeStamp >>

\* kObjectID_Volume_*_Master, kAudioLevelControlPropertyScalarValue (scalar in sixteenths)
SetControl_VolumeScalar(inObjectID, scalar16) ==
    /\ inObjectID \in {kObjectID_Volume_Input_Master, kObjectID_Volume_Output_Master}
    /\ gVolume_Master_Value' = Clamp(volume_from_scalar(scalar16), 0, GainOne)
    /\ lastCall' = [op |-> "SetVolume", status |-> kAudioHardwareNoError]
    /\ ControlFrame
    /\ UNCHANGED << gDevice_AdjustedTicksPerFrame, gPitch_Adjust, gMute_Master_Value,
                    gClockSource_Value, gPitch_Adjust_Enabled, configRequests >>

\* kObjectID_Volume_*_Master, kAudioLevelControlPropertyDecibelValue
SetControl_VolumeDecibel(inObjectID, decibel) ==
    /\ inObjectID \in {kObjectID_Volume_Input_Master, kObjectID_Volume_Output_Master}
    /\ gVolume_Master_Value' =
           volume_from_decibel(Clamp(decibel, kVolume_MinDB, kVolume_MaxDB))
    /\ lastCall' = [op |-> "SetVolume", status |-> kAudioHardwareNoError]
    /\ ControlFrame
    /\ UNCHANGED << gDevice_AdjustedTicksPerFrame, gPitch_Adjust, gMute_Master_Value,
                    gClockSource_Value, gPitch_Adjust_Enabled, configRequests >>

\* kObjectID_Mute_*_Master, kAudioBooleanControlPropertyValue (a UInt32)
SetControl_Mute(inObjectID, value) ==
    /\ inObjectID \in {kObjectID_Mute_Input_Master, kObjectID_Mute_Output_Master}
    /\ gMute_Master_Value' = (value # 0)
    /\ lastCall' = [op |-> "SetMute", status |-> kAudioHardwareNoError]
    /\ ControlFrame
    /\ UNCHANGED << gDevice_AdjustedTicksPerFrame, gPitch_Adjust, gVolume_Master_Value,
                    gClockSource_Value, gPitch_Adjust_Enabled, configRequests >>

\* kObjectID_Pitch_Adjust, kAudioStereoPanControlPropertyValue (pitch in quarters)
SetControl_Pitch(value) ==
    LET theNewPitch == Clamp(value, 0, PitchOne)
    IN /\ gPitch_Adjust' = theNewPitch
       /\ gDevice_AdjustedTicksPerFrame' =
              IF gPitch_Adjust # theNewPitch
              THEN AdjustedTicksPerFrame(gDevice_HostTicksPerFrame, theNewPitch)
              ELSE gDevice_AdjustedTicksPerFrame
       /\ lastCall' = [op |-> "SetPitch", status |-> kAudioHardwareNoError]
       /\ ControlFrame
       /\ UNCHANGED << gVolume_Master_Value, gMute_Master_Value, gClockSource_Value,
                       gPitch_Adjust_Enabled, configRequests >>

\* configuration change requests the host has been handed and has not answered
Pending == configRequests[ChangeAction_SetSampleRate]
           + configRequests[ChangeAction_EnablePitchControl]
           + configRequests[ChangeAction_DisablePitchControl]

\* dispatch_async(..., ^{ gPlugIn_Host->RequestDeviceConfigurationChange(gPlugIn_Host,
\*                        kObjectID_Device, changeAction, NULL); })
RequestDeviceConfigurationChange(changeAction) ==
    /\ Pending < MaxPending
    /\ configRequests' = [configRequests EXCEPT ![changeAction] = @ + 1]

\* kObjectID_ClockSource, kAudioSelectorControlPropertyCurrentItem
SetControl_ClockSource(item) ==
    LET theNewSource == IF item >= kClockSource_NumberItems
                        THEN kClockSource_NumberItems - 1
                        ELSE item
    IN /\ IF gClockSource_Value # theNewSource
          THEN /\ gClockSource_Value' = theNewSource
               /\ RequestDeviceConfigurationChange(
                      IF theNewSource > 0 THEN ChangeAction_EnablePitchControl
                                          ELSE ChangeAction_DisablePitchControl)
          ELSE UNCHANGED << gClockSource_Value, configRequests >>
       /\ lastCall' = [op |-> "SetClockSource", value |-> item,
                       status |-> kAudioHardwareNoError]
       /\ ControlFrame
       /\ UNCHANGED << gDevice_AdjustedTicksPerFrame, gVolume_Master_Value,
                       gMute_Master_Value, gPitch_Adjust, gPitch_Adjust_Enabled >>

(***************************************************************************)
(* Sample rate: the setters, then Perform and Abort                        *)
(***************************************************************************)
\* what the two sample rate setters return for a rate that is not supported
UnsupportedSampleRateStatus == kAudioHardwareIllegalOperationError

\* the sample rate the setters store as requested
StoreRequestedSampleRate_KeepFirst(requested, new) == IF requested = 0 THEN new ELSE requested
StoreRequestedSampleRate(requested, new) == new

\* kAudioDevicePropertyNominalSampleRate of the device; kAudioStreamPropertyVirtualFormat
\* and kAudioStreamPropertyPhysicalFormat of a stream (a format that differs from the
\* current one in its mSampleRate only): the same statements in both setters
SetSampleRate(op, sampleRate) ==
    IF ~is_valid_sample_rate(sampleRate)
    THEN /\ lastCall' = [op |-> op, value |-> sampleRate,
                         status |-> UnsupportedSampleRateStatus]
         /\ UNCHANGED << counters, clock, rate, controls, transport, hostTime,
                         configRequests, zeroTimeStamp >>
    ELSE LET theOldSampleRate == gDevice_SampleRate
         IN /\ gDevice_RequestedSampleRate' =
                   StoreRequestedSampleRate(gDevice_RequestedSampleRate, sampleRate)
            /\ IF sampleRate # theOldSampleRate
               THEN RequestDeviceConfigurationChange(ChangeAction_SetSampleRate)
               ELSE UNCHANGED configRequests
            /\ lastCall' = [op |-> op, value |-> sampleRate,
                            status |-> kAudioHardwareNoError]
            /\ UNCHANGED << counters, clock, gDevice_SampleRate,
                            gDevice_HostTicksPerFrame, gDevice_AdjustedTicksPerFrame,
                            controls, transport, hostTime, zeroTimeStamp >>

BlackHole_SetDevicePropertyData(inObjectID, sampleRate) ==
    /\ inObjectID \in DeviceIDs
    /\ SetSampleRate("SetDeviceSampleRate", sampleRate)

BlackHole_SetStreamPropertyData(inObjectID, sampleRate) ==
    /\ inObjectID \in {kObjectID_Stream_Input, kObjectID_Stream_Output}
    /\ SetSampleRate("SetStreamFormat", sampleRate)

\* the state BlackHole_PerformDeviceConfigurationChange(ChangeAction_SetSampleRate) writes
PerformSetSampleRate_Noop(newSampleRate) ==
    UNCHANGED << gDevice_SampleRate, gDevice_HostTicksPerFrame,
                 gDevice_AdjustedTicksPerFrame >>
PerformSetSampleRate(newSampleRate) ==
    /\ gDevice_SampleRate' = newSampleRate
    /\ gDevice_HostTicksPerFrame' = HostTicksPerFrame(newSampleRate)
    /\ gDevice_AdjustedTicksPerFrame' =
           AdjustedTicksPerFrame(HostTicksPerFrame(newSampleRate), gPitch_Adjust)

BlackHole_PerformDeviceConfigurationChange(inDeviceObjectID, inChangeAction) ==
    /\ inDeviceObjectID \in DeviceIDs
    /\ CASE inChangeAction = ChangeAction_EnablePitchControl ->
                /\ gPitch_Adjust_Enabled' = TRUE
                /\ lastCall' = [op |-> "Perform", action |-> inChangeAction,
                                status |-> kAudioHardwareNoError]
                /\ UNCHANGED << rate, gVolume_Master_Value, gPitch_Adjust,
                                gMute_Master_Value, gClockSource_Value >>
         [] inChangeAction = ChangeAction_DisablePitchControl ->
                /\ gPitch_Adjust_Enabled' = FALSE
                /\ lastCall' = [op |-> "Perform", action |-> inChangeAction,
                                status |-> kAudioHardwareNoError]
                /\ UNCHANGED << rate, gVolume_Master_Value, gPitch_Adjust,
                                gMute_Master_Value, gClockSource_Value >>
         [] inChangeAction = ChangeAction_SetSampleRate ->
                LET newSampleRate == gDevice_RequestedSampleRate
                IN IF ~is_valid_sample_rate(newSampleRate)
                   THEN /\ lastCall' = [op |-> "Perform", action |-> inChangeAction,
                                        status |-> kAudioHardwareBadObjectError]
                        /\ UNCHANGED << rate, controls >>
                   ELSE /\ PerformSetSampleRate(newSampleRate)
                        /\ lastCall' = [op |-> "Perform", action |-> inChangeAction,
                                        status |-> kAudioHardwareNoError]
                        /\ UNCHANGED << gDevice_RequestedSampleRate, controls >>
    /\ UNCHANGED << counters, clock, transport, hostTime, zeroTimeStamp >>

\* the state BlackHole_AbortDeviceConfigurationChange writes: none
AbortEffect_ResetsRate ==
    /\ gDevice_SampleRate' = 48000
    /\ gDevice_HostTicksPerFrame' = HostTicksPerFrame(48000)
    /\ gDevice_AdjustedTicksPerFrame' =
           AdjustedTicksPerFrame(HostTicksPerFrame(48000), gPitch_Adjust)
    /\ UNCHANGED << gDevice_RequestedSampleRate, controls >>
AbortEffect == UNCHANGED << rate, controls >>

BlackHole_AbortDeviceConfigurationChange(inDeviceObjectID, inChangeAction) ==
    /\ inDeviceObjectID \in DeviceIDs
    /\ AbortEffect
    /\ lastCall' = [op |-> "Abort", action |-> inChangeAction,
                    status |-> kAudioHardwareNoError]
    /\ UNCHANGED << counters, clock, transport, hostTime, zeroTimeStamp >>

(***************************************************************************)
(* The host                                                                *)
(***************************************************************************)
\* the host answers a request with Perform or with Abort, for the device the request named
HostPerforms(changeAction) ==
    /\ configRequests[changeAction] > 0
    /\ configRequests' = [configRequests EXCEPT ![changeAction] = @ - 1]
    /\ BlackHole_PerformDeviceConfigurationChange(kObjectID_Device, changeAction)

HostAborts(changeAction) ==
    /\ configRequests[changeAction] > 0
    /\ configRequests' = [configRequests EXCEPT ![changeAction] = @ - 1]
    /\ BlackHole_AbortDeviceConfigurationChange(kObjectID_Device, changeAction)

\* the host calls Perform for a change that no setter has asked for
HostPerformsUnrequested(inDeviceObjectID, changeAction) ==
    /\ configRequests[changeAction] = 0
    /\ UNCHANGED configRequests
    /\ BlackHole_PerformDeviceConfigurationChange(inDeviceObjectID, changeAction)

Running(inDeviceObjectID) ==
    IF inDeviceObjectID = kObjectID_Device THEN gDevice_IOIsRunning
    ELSE IF inDeviceObjectID = kObjectID_Device2 THEN gDevice2_IOIsRunning
    ELSE 0

\* the host stops the IO of the device a request names, and of no other device, before
\* it answers the request; every request of the driver names kObjectID_Device
HostPerformsStopped(changeAction) ==
    /\ Running(kObjectID_Device) = 0
    /\ HostPerforms(changeAction)

HostAbortsStopped(changeAction) ==
    /\ Running(kObjectID_Device) = 0
    /\ HostAborts(changeAction)

\* the host starts and stops IO for one client of each device
HostStartsClient(inDeviceObjectID) ==
    /\ Running(inDeviceObjectID) = 0
    /\ BlackHole_StartIO(inDeviceObjectID)

HostStopsClient(inDeviceObjectID) ==
    /\ Running(inDeviceObjectID) > 0
    /\ BlackHole_StopIO(inDeviceObjectID)

\* the host runs IO cycles for a device between its StartIO and its StopIO, with
\* at most kRing_Buffer_Frame_Size frames a cycle
HostReads(inDeviceObjectID, inIOBufferFrameSize, inputSampleTime) ==
    /\ Running(inDeviceObjectID) > 0
    /\ DoIOOperation_ReadInput(inDeviceObjectID, kObjectID_Stream_Input,
                               inIOBufferFrameSize, inputSampleTime)

HostWrites(inDeviceObjectID, inIOBufferFrameSize, outputSampleTime, late) ==
    /\ Running(inDeviceObjectID) > 0
    /\ DoIOOperation_WriteMix(inDeviceObjectID, kObjectID_Stream_Output,
                              inIOBufferFrameSize, outputSampleTime,
                              outputSampleTime + inIOBufferFrameSize
                                  + kLatency_Frame_Size + late)

(***************************************************************************)
(* BlackHole_GetPropertyDataSize and BlackHole_GetPropertyData of a device *)
(* for its three object lists                                              *)
(***************************************************************************)
PropertyFrame ==
    UNCHANGED << counters, clock, rate, controls, transport, hostTime,
                 configRequests, zeroTimeStamp >>

\* BlackHole_GetDevicePropertyDataSize
GetDevicePropertyDataSize(inObjectID, mSelector, mScope) ==
    SizeOfAudioObjectID *
        (CASE mSelector = kAudioObjectPropertyOwnedObjects ->
                  device_object_list_size(mScope, inObjectID)
           [] mSelector = kAudioDevicePropertyStreams ->
                  device_stream_list_size(mScope, inObjectID)
           [] mSelector = kAudioObjectPropertyControlList ->
                  device_control_list_size(mScope, inObjectID))

BlackHole_GetPropertyDataSize(inObjectID, mSelector, mScope) ==
    /\ inObjectID \in DeviceIDs
    /\ lastCall' = [op |-> "GetPropertyDataSize", object |-> inObjectID,
                    selector |-> mSelector, scope |-> mScope,
                    status |-> kAudioHardwareNoError,
                    outDataSize |-> GetDevicePropertyDataSize(inObjectID, mSelector, mScope)]
    /\ PropertyFrame

\* theNumberItemsToFetch = minimum(inDataSize / sizeof(AudioObjectID), the list's size)
NumberItemsToFetch(inObjectID, mSelector, mScope, inDataSize) ==
    minimum(inDataSize \div SizeOfAudioObjectID,
            GetDevicePropertyDataSize(inObjectID, mSelector, mScope) \div SizeOfAudioObjectID)

\* BlackHole_GetDevicePropertyData: fill out the list
GetDevicePropertyData(inObjectID, mSelector, mScope, inDataSize) ==
    LET n == NumberItemsToFetch(inObjectID, mSelector, mScope, inDataSize)
        list == IF inObjectID = kObjectID_Device THEN kDevice_ObjectList
                ELSE kDevice2_ObjectList
    IN CASE mSelector = kAudioObjectPropertyOwnedObjects ->
                FetchLoop(list, InScope(list, mScope), n, 1, << >>)
         [] mSelector = kAudioDevicePropertyStreams ->
                FetchLoop(list, TypeInScope(list, kObjectType_Stream, mScope), n, 1, << >>)
         [] mSelector = kAudioObjectPropertyControlList ->
                FetchLoop(list, ControlShown(kDevice_ObjectList, gPitch_Adjust_Enabled),
                          n, 1, << >>)

\* a loop that ran past the end of its table fills the rest of outData with what it
\* finds there
BlackHole_GetPropertyData(inObjectID, mSelector, mScope, inDataSize) ==
    /\ inObjectID \in DeviceIDs
    /\ LET n == NumberItemsToFetch(inObjectID, mSelector, mScope, inDataSize)
           fetched == GetDevicePropertyData(inObjectID, mSelector, mScope, inDataSize)
       IN \E stray \in [1..(n - Len(fetched.outData)) -> StrayIDs] :
              lastCall' = [op |-> "GetPropertyData", object |-> inObjectID,
                           selector |-> mSelector, scope |-> mScope,
                           inDataSize |-> inDataSize,
                           status |-> kAudioHardwareNoError,
                           overran |-> fetched.overran,
                           outData |-> fetched.outData \o stray,
                           outDataSize |-> n * SizeOfAudioObjectID]
    /\ PropertyFrame

(***************************************************************************)
(* The companion client (BlackHoleClient)                                  *)
(***************************************************************************)
DeviceEventNone == 0
DeviceEventStarted == 1
DeviceEventStopped == 62
DeviceEventMax == 63

\* the event bytes the client is sent: every device id with the events around each code
EventBytes ==
    {d * (2 ^ 6) + e : d \in 0..3,
                       e \in {DeviceEventNone, DeviceEventStarted, DeviceEventStarted + 1,
                               DeviceEventStopped - 1, DeviceEventStopped, DeviceEventMax}}

\* a & b on uint8_t
RECURSIVE BitAnd(_, _, _)
BitAnd(a, b, bits) ==
    IF bits = 0 THEN 0
    ELSE (a % 2) * (b % 2) + 2 * BitAnd(a \div 2, b \div 2, bits - 1)

\* uint8_t deviceMask = 3 << 6
deviceMask_OneBit == (1 * (2 ^ 6)) % 256
deviceMask == (3 * (2 ^ 6)) % 256

\* uint8_t eventMask = ~deviceMask
eventMask == 255 - deviceMask

\* uint8_t deviceId = (eventMessage & deviceMask) >> 6
deviceId(eventMessage) == BitAnd(eventMessage, deviceMask, 8) \div (2 ^ 6)

\* uint8_t event = eventMessage & eventMask
event(eventMessage) == BitAnd(eventMessage, eventMask, 8)

\* what fork() can return to the client: the pid of a new child, or -1
ForkResults == {0 - 1} \cup ((1..MaxProcesses) \ processes)

CompanionFrame ==
    UNCHANGED << counters, clock, rate, controls, transport, hostTime, configRequests,
                 zeroTimeStamp, lastCall, threads, build, locks, writtenInSession, ioStarted >>

\* malloc(sizeof(char *) * count): an array of count pointers, not initialised
Uninitialized == << 0 - 1 >>

malloc(count) == [j \in 1..count |-> Uninitialized]

\* the pointer argv[i] of the command line
ArgvPointer(i) == << i >>

\* main: gAppArgv = malloc(sizeof(char *) * (appPathIndex + 1));
\*       for (i = appPathIndex; i < argc; i++) gAppArgv[appArgvIndex++] = argv[i];
\*       gAppArgv[appArgvCount] = NULL;
\* cells is the allocated array (cells[k + 1] is gAppArgv[k]); outside is the set of
\* indices k at which main wrote past the end of the allocation
BuildAppArgv(n) ==
    LET appPathIndex == 2
        appArgvCount == n - appPathIndex
        allocation == malloc(appPathIndex + 1)
        Stored(k) == IF k = appArgvCount THEN NULL ELSE ArgvPointer(appPathIndex + k)
    IN [cells |-> [j \in 1..Len(allocation) |->
                      IF j - 1 <= appArgvCount THEN Stored(j - 1) ELSE allocation[j]],
        outside |-> {k \in 0..appArgvCount : k >= Len(allocation)}]

\* main up to its connect loop: with argc < 3 it prints the help and returns; else it
\* builds gAppArgv and gDeviceId = strtoul(argv[1], NULL, 0)
Client_main(argvDeviceId) ==
    /\ clientPC = "main"
    /\ IF argc < 3
       THEN /\ clientPC' = "exit"
            /\ UNCHANGED << gDeviceId, gAppArgv >>
       ELSE /\ gAppArgv' = BuildAppArgv(argc)
            /\ gDeviceId' = argvDeviceId
            /\ clientPC' = "connect"
    /\ UNCHANGED << subprocessPID, processes, lastEvent, argc >>
    /\ CompanionFrame

\* main: connect succeeded, BlackHole_listen(server_socket) begins: subprocessPID = -1
Client_connect ==
    /\ clientPC = "connect"
    /\ clientPC' = "listen"
    /\ subprocessPID' = 0 - 1
    /\ UNCHANGED << gDeviceId, processes, lastEvent, argc, gAppArgv >>
    /\ CompanionFrame

\* one turn of the loop of BlackHole_listen that read eventMessage
BlackHole_listen(eventMessage, forkResult) ==
    /\ clientPC = "listen"
    /\ forkResult \in ForkResults
    /\ LET received == [eventMessage |-> eventMessage,
                        deviceId |-> deviceId(eventMessage),
                        event |-> event(eventMessage),
                        forked |-> 0, killed |-> 0]
       IN IF deviceId(eventMessage) # gDeviceId
          THEN /\ lastEvent' = received
               /\ UNCHANGED << subprocessPID, processes >>
          ELSE IF event(eventMessage) = DeviceEventStarted
          THEN IF subprocessPID > 0
               THEN /\ lastEvent' = received
                    /\ UNCHANGED << subprocessPID, processes >>
               ELSE /\ subprocessPID' = forkResult
                    /\ processes' = IF forkResult > 0
                                    THEN processes \cup {forkResult}
                                    ELSE processes
                    /\ lastEvent' = [received EXCEPT !.forked = forkResult]
          ELSE IF event(eventMessage) = DeviceEventStopped /\ subprocessPID > 0
          THEN /\ lastEvent' = [received EXCEPT !.killed = subprocessPID]
               /\ processes' = processes \ {subprocessPID}
               /\ subprocessPID' = 0 - 1
          ELSE /\ lastEvent' = received
               /\ UNCHANGED << subprocessPID, processes >>
    /\ UNCHANGED << gDeviceId, clientPC, argc, gAppArgv >>
    /\ CompanionFrame

\* BlackHole_listen: the read failed; close(socket), and main connects again
Client_readError ==
    /\ clientPC = "listen"
    /\ clientPC' = "connect"
    /\ UNCHANGED << gDeviceId, subprocessPID, processes, lastEvent, argc, gAppArgv >>
    /\ CompanionFrame

(***************************************************************************)
(* Calls that run at the same time                                         *)
(*                                                                         *)
(* A thread of a client is idle or inside one driver call, at the place    *)
(* threads[t].pc names.  BlackHole_StartIO and BlackHole_StopIO check      *)
(* their arguments and the run counter before they take                    *)
(* gPlugIn_StateMutex; what they do under the mutex is one step.           *)
(***************************************************************************)
\* the checks of BlackHole_StartIO, made without the mutex
Thread_StartIO_Check(t, inDeviceObjectID) ==
    /\ threads[t] = Idle
    /\ inDeviceObjectID \in DeviceIDs
    /\ IF StartIO_Overflow(inDeviceObjectID)
       THEN /\ lastCall' = [op |-> "StartIO", device |-> inDeviceObjectID,
                            status |-> kAudioHardwareIllegalOperationError]
            /\ UNCHANGED threads
       ELSE /\ threads' = [threads EXCEPT ![t] = [pc |-> "StartIO_Lock",
                                                   device |-> inDeviceObjectID]]
            /\ UNCHANGED lastCall
    /\ UNCHANGED << counters, clock, rate, controls, transport, hostTime,
                    configRequests, zeroTimeStamp >>

\* pthread_mutex_lock(&gPlugIn_StateMutex) ... pthread_mutex_unlock, and the return
Thread_StartIO_Locked(t) ==
    /\ threads[t].pc = "StartIO_Lock"
    /\ StartIO_Locked(threads[t].device,
                      calloc(kRing_Buffer_Frame_Size * kNumber_Of_Channels))
    /\ threads' = [threads EXCEPT ![t] = Idle]

\* the checks of BlackHole_StopIO, made without the mutex
Thread_StopIO_Check(t, inDeviceObjectID) ==
    /\ threads[t] = Idle
    /\ inDeviceObjectID \in DeviceIDs
    /\ IF StopIO_Underflow(inDeviceObjectID)
       THEN /\ lastCall' = [op |-> "StopIO", device |-> inDeviceObjectID,
                            status |-> kAudioHardwareIllegalOperationError]
            /\ UNCHANGED threads
       ELSE /\ threads' = [threads EXCEPT ![t] = [pc |-> "StopIO_Lock",
                                                   device |-> inDeviceObjectID]]
            /\ UNCHANGED lastCall
    /\ UNCHANGED << counters, clock, rate, controls, transport, hostTime,
                    configRequests, zeroTimeStamp >>

Thread_StopIO_Locked(t) ==
    /\ threads[t].pc = "StopIO_Lock"
    /\ StopIO_Locked(threads[t].device)
    /\ threads' = [threads EXCEPT ![t] = Idle]

(***************************************************************************)
(* BlackHole_DoIOOperation takes no lock.  An IO cycle of a thread is the  *)
(* sequence of its reads and writes of gRingBuffer, lastOutputSampleTime   *)
(* and isBufferClear, each its own step.                                   *)
(***************************************************************************)
IOFrame == << counters, clock, rate, controls, hostTime, configRequests, zeroTimeStamp >>

\* where thread t goes next
Goto(t, place) == threads' = [threads EXCEPT ![t] = [threads[t] EXCEPT !.pc = place]]

\* ReadInput: gMute_Master_Value || lastOutputSampleTime - inIOBufferFrameSize < mSampleTime
Thread_Read_SilenceTest(t, inDeviceObjectID, inIOBufferFrameSize, inputSampleTime) ==
    /\ threads[t] = Idle
    /\ Running(inDeviceObjectID) > 0
    /\ threads' = [threads EXCEPT ![t] =
                     [pc |-> IF ReadIsSilent(gMute_Master_Value, lastOutputSampleTime,
                                             inIOBufferFrameSize, inputSampleTime)
                             THEN "Read_FlagTest"
                             ELSE "Read_Copy",
                      device |-> inDeviceObjectID,
                      frames |-> inIOBufferFrameSize,
                      sampleTime |-> inputSampleTime]]
    /\ UNCHANGED << IOFrame, transport, lastCall >>

\* ReadInput: vDSP_vclr(ioMainBuffer, ...); if (!isBufferClear)
Thread_Read_FlagTest(t) ==
    /\ threads[t].pc = "Read_FlagTest"
    /\ IF isBufferClear
       THEN /\ threads' = [threads EXCEPT ![t] = Idle]
            /\ lastCall' = [op |-> kAudioServerPlugInIOOperationReadInput,
                            status |-> kAudioHardwareNoError,
                            sampleTime |-> threads[t].sampleTime,
                            frames |-> threads[t].frames,
                            silent |-> TRUE,
                            ioMainBuffer |->
                                vDSP_vclr(Garbage(threads[t].frames),
                                          threads[t].frames * kNumber_Of_Channels)]
       ELSE /\ Goto(t, "Read_Clear")
            /\ UNCHANGED lastCall
    /\ UNCHANGED << IOFrame, transport >>

\* ReadInput: vDSP_vclr(gRingBuffer, 1, kRing_Buffer_Frame_Size * kNumber_Of_Channels)
Thread_Read_Clear(t) ==
    /\ threads[t].pc = "Read_Clear"
    /\ IF gRingBuffer = NULL
       THEN /\ memFault' = TRUE
            /\ UNCHANGED gRingBuffer
       ELSE /\ gRingBuffer' =
                   vDSP_vclr(gRingBuffer, kRing_Buffer_Frame_Size * kNumber_Of_Channels)
            /\ UNCHANGED memFault
    /\ Goto(t, "Read_SetFlag")
    /\ UNCHANGED << IOFrame, lastOutputSampleTime, isBufferClear, lastCall >>

\* ReadInput: isBufferClear = true, and the return
Thread_Read_SetFlag(t) ==
    /\ threads[t].pc = "Read_SetFlag"
    /\ isBufferClear' = TRUE
    /\ threads' = [threads EXCEPT ![t] = Idle]
    /\ lastCall' = [op |-> kAudioServerPlugInIOOperationReadInput,
                    status |-> kAudioHardwareNoError,
                    sampleTime |-> threads[t].sampleTime,
                    frames |-> threads[t].frames,
                    silent |-> TRUE,
                    ioMainBuffer |->
                        vDSP_vclr(Garbage(threads[t].frames),
                                  threads[t].frames * kNumber_Of_Channels)]
    /\ UNCHANGED << IOFrame, gRingBuffer, lastOutputSampleTime, memFault >>

\* ReadInput: the two memcpy calls out of gRingBuffer, vDSP_vsmul, and the return
Thread_Read_Copy(t) ==
    /\ threads[t].pc = "Read_Copy"
    /\ LET N == kNumber_Of_Channels
           start == RingBufferFrameLocationStart(threads[t].sampleTime)
           first == FirstPartFrameSize(start, threads[t].frames)
           second == SecondPartFrameSize(start, threads[t].frames)
           ioMainBuffer == Garbage(threads[t].frames)
           fault == \/ ~InBounds(gRingBuffer, start * N, first * N)
                    \/ ~InBounds(gRingBuffer, 0, second * N)
           copied == memcpy(memcpy(ioMainBuffer, 0, gRingBuffer, start * N, first * N),
                            first * N, gRingBuffer, 0, second * N)
       IN /\ memFault' = (memFault \/ fault)
          /\ lastCall' = [op |-> kAudioServerPlugInIOOperationReadInput,
                          status |-> kAudioHardwareNoError,
                          sampleTime |-> threads[t].sampleTime,
                          frames |-> threads[t].frames,
                          silent |-> FALSE,
                          ioMainBuffer |->
                              IF fault
                              THEN ioMainBuffer
                              ELSE vDSP_vsmul(copied, gVolume_Master_Value,
                                              threads[t].frames * N)]
    /\ threads' = [threads EXCEPT ![t] = Idle]
    /\ UNCHANGED << IOFrame, gRingBuffer, lastOutputSampleTime, isBufferClear >>

\* WriteMix: the overload test
Thread_Write_OverloadTest(t, inDeviceObjectID, inIOBufferFrameSize, outputSampleTime, currentSampleTime) ==
    /\ threads[t] = Idle
    /\ Running(inDeviceObjectID) > 0
    /\ IF IsOverload(currentSampleTime, outputSampleTime, inIOBufferFrameSize)
       THEN /\ lastCall' = [op |-> kAudioServerPlugInIOOperationWriteMix,
                            status |-> kAudioHardwareUnspecifiedError,
                            sampleTime |-> outputSampleTime,
                            currentTime |-> currentSampleTime,
                            frames |-> inIOBufferFrameSize]
            /\ UNCHANGED threads
       ELSE /\ threads' = [threads EXCEPT ![t] =
                             [pc |-> "Write_Copy",
                              device |-> inDeviceObjectID,
                              frames |-> inIOBufferFrameSize,
                              sampleTime |-> outputSampleTime,
                              currentTime |-> currentSampleTime]]
            /\ UNCHANGED lastCall
    /\ UNCHANGED << IOFrame, transport >>

\* WriteMix: the two memcpy calls into gRingBuffer
Thread_Write_Copy(t) ==
    /\ threads[t].pc = "Write_Copy"
    /\ LET N == kNumber_Of_Channels
           start == RingBufferFrameLocationStart(threads[t].sampleTime)
           first == FirstPartFrameSize(start, threads[t].frames)
           second == SecondPartFrameSize(start, threads[t].frames)
           ioMainBuffer == Tone(threads[t].sampleTime, threads[t].frames)
           fault == \/ ~InBounds(gRingBuffer, start * N, first * N)
                    \/ ~InBounds(gRingBuffer, 0, second * N)
       IN IF fault
          THEN /\ memFault' = TRUE
               /\ UNCHANGED gRingBuffer
          ELSE /\ gRingBuffer' =
                      memcpy(memcpy(gRingBuffer, start * N, ioMainBuffer, 0, first * N),
                             0, ioMainBuffer, first * N, second * N)
               /\ UNCHANGED memFault
    /\ Goto(t, "Write_Mark")
    /\ UNCHANGED << IOFrame, lastOutputSampleTime, isBufferClear, lastCall >>

\* WriteMix: lastOutputSampleTime = mOutputTime.mSampleTime + inIOBufferFrameSize
Thread_Write_Mark(t) ==
    /\ threads[t].pc = "Write_Mark"
    /\ lastOutputSampleTime' = threads[t].sampleTime + threads[t].frames
    /\ Goto(t, "Write_SetFlag")
    /\ UNCHANGED << IOFrame, gRingBuffer, isBufferClear, memFault, lastCall >>

\* WriteMix: isBufferClear = false, and the return
Thread_Write_SetFlag(t) ==
    /\ threads[t].pc = "Write_SetFlag"
    /\ isBufferClear' = FALSE
    /\ threads' = [threads EXCEPT ![t] = Idle]
    /\ lastCall' = [op |-> kAudioServerPlugInIOOperationWriteMix,
                    status |-> kAudioHardwareNoError,
                    sampleTime |-> threads[t].sampleTime,
                    currentTime |-> threads[t].currentTime,
                    frames |-> threads[t].frames]
    /\ UNCHANGED << IOFrame, gRingBuffer, lastOutputSampleTime, memFault >>

\* argument sets of the actions
DeviceArgs == DeviceIDs \cup {kObjectID_Box}
FrameCounts == 1..kRing_Buffer_Frame_Size
\* inDataSize: no room, room for one id and a half, for two, and for every object id
DataSizes == {0, SizeOfAudioObjectID + 2, SizeOfAudioObjectID * 2, SizeOfAudioObjectID * kObjectID_Device2}
ClientDeviceIds == 0..4
SampleTimes == 0..MaxSampleTime
DecibelArgs == {-80, -20, 6}
ScalarArgs == {0, 16}
PitchArgs == {0 - 1, 1, PitchOne \div 2, PitchOne + 1}
ClockSourceArgs == {0, 1, 2}
SampleRateArgs == {0, 22050, 48000, 96000}

(***************************************************************************)
(* Specifications                                                          *)
(***************************************************************************)
\* start, stop and the zero time stamp, for any arguments of the caller
NextLifecycle ==
    /\ UNCHANGED << threads, build, companion, locks, writtenInSession, ioStarted >>
    /\ \/ Tick
       \/ \E d \in DeviceArgs : BlackHole_StartIO(d)
       \/ \E d \in DeviceArgs : BlackHole_StopIO(d)
       \/ \E d \in DeviceArgs : BlackHole_GetZeroTimeStamp(d)

SpecLifecycle == Init /\ [][NextLifecycle]_vars

\* the transport engine: IO cycles, mute and volume
NextTransport ==
    /\ UNCHANGED << threads, build, companion, locks, writtenInSession, ioStarted >>
    /\ \/ \E d \in DeviceIDs : HostStartsClient(d)
       \/ \E d \in DeviceIDs : HostStopsClient(d)
       \/ \E d \in DeviceIDs, n \in FrameCounts, t \in SampleTimes : HostReads(d, n, t)
       \/ \E d \in DeviceIDs, n \in FrameCounts, t \in SampleTimes, late \in {0, 1} :
              HostWrites(d, n, t, late)
       \/ \E o \in {kObjectID_Volume_Output_Master}, v \in DecibelArgs :
              SetControl_VolumeDecibel(o, v)
       \/ \E o \in {kObjectID_Volume_Input_Master}, v \in ScalarArgs :
              SetControl_VolumeScalar(o, v)
       \/ \E o \in {kObjectID_Mute_Output_Master}, v \in {0, 1} : SetControl_Mute(o, v)

SpecTransport == Init /\ [][NextTransport]_vars

\* the configuration change protocol
NextConfig ==
    /\ UNCHANGED << threads, build, companion, locks, writtenInSession, ioStarted >>
    /\ \/ \E d \in DeviceIDs, r \in SampleRateArgs : BlackHole_SetDevicePropertyData(d, r)
       \/ \E r \in SampleRateArgs :
              BlackHole_SetStreamPropertyData(kObjectID_Stream_Output, r)
       \/ \E v \in PitchArgs : SetControl_Pitch(v)
       \/ \E i \in ClockSourceArgs : SetControl_ClockSource(i)
       \/ \E a \in ChangeActions : HostPerforms(a)
       \/ \E a \in ChangeActions : HostAborts(a)

SpecConfig == Init /\ [][NextConfig]_vars

\* the device clock under configuration changes
NextClock ==
    /\ UNCHANGED << threads, build, companion, locks, writtenInSession, ioStarted >>
    /\ \/ Tick
       \/ \E d \in DeviceIDs : HostStartsClient(d)
       \/ \E d \in DeviceIDs : HostStopsClient(d)
       \/ BlackHole_GetZeroTimeStamp(kObjectID_Device)
       \/ \E r \in {96000} : BlackHole_SetDevicePropertyData(kObjectID_Device, r)
       \/ \E v \in {0} : SetControl_Pitch(v)
       \/ \E i \in {0, 1} : SetControl_ClockSource(i)
       \/ \E a \in ChangeActions : HostPerforms(a)

SpecClock == Init /\ [][NextClock]_vars

\* IO sessions: clients come and go on both devices while the clock runs and a client
\* of the first device writes
NextSession ==
    /\ UNCHANGED << threads, build, companion, locks, writtenInSession, ioStarted >>
    /\ \/ Tick
       \/ \E d \in DeviceIDs : BlackHole_StartIO(d)
       \/ \E d \in DeviceIDs : BlackHole_StopIO(d)
       \/ BlackHole_GetZeroTimeStamp(kObjectID_Device)
       \/ \E t \in {0, kRing_Buffer_Frame_Size - 1} : HostWrites(kObjectID_Device, 1, t, 0)

SpecSession == Init /\ [][NextSession]_vars

\* the IO life cycle on a machine that can run out of memory
NextAlloc ==
    /\ UNCHANGED << threads, build, companion, locks, writtenInSession, ioStarted >>
    /\ \/ Tick
       \/ \E d \in DeviceIDs : BlackHole_StartIO(d)
       \/ \E d \in DeviceIDs : BlackHole_StartIO_NoMemory(d)
       \/ \E d \in DeviceIDs : BlackHole_StopIO(d)
       \/ BlackHole_GetZeroTimeStamp(kObjectID_Device)

SpecAlloc == Init /\ [][NextAlloc]_vars

(***************************************************************************)
(* The two mutexes                                                         *)
(*                                                                         *)
(* gPlugIn_StateMutex and gDevice_IOMutex are free or held by one thread.  *)
(* A call is split at every pthread_mutex_lock and pthread_mutex_unlock;   *)
(* BlackHole_StartIO is split further, at its writes of the clock fields.  *)
(***************************************************************************)
\* pthread_mutex_lock(&gPlugIn_StateMutex): the caller waits until the mutex is free
Lock_StateMutex(t) ==
    /\ gPlugIn_StateMutex = PTHREAD_MUTEX_INITIALIZER
    /\ gPlugIn_StateMutex' = t

\* pthread_mutex_unlock(&gPlugIn_StateMutex)
Unlock_StateMutex_Skipped(t) == UNCHANGED gPlugIn_StateMutex
Unlock_StateMutex(t) == gPlugIn_StateMutex' = PTHREAD_MUTEX_INITIALIZER

\* pthread_mutex_lock(&gDevice_IOMutex)
Lock_IOMutex(t) ==
    /\ gDevice_IOMutex = PTHREAD_MUTEX_INITIALIZER
    /\ gDevice_IOMutex' = t

\* pthread_mutex_unlock(&gDevice_IOMutex)
Unlock_IOMutex(t) == gDevice_IOMutex' = PTHREAD_MUTEX_INITIALIZER

\* BlackHole_StartIO: pthread_mutex_lock(&gPlugIn_StateMutex)
Thread_StartIO_Acquire(t) ==
    /\ threads[t].pc = "StartIO_Lock"
    /\ Lock_StateMutex(t)
    /\ Goto(t, "StartIO_Count")
    /\ UNCHANGED << IOFrame, transport, lastCall, gDevice_IOMutex >>

\* BlackHole_StartIO: gDevice_IOIsRunning += 1 (or gDevice2_IOIsRunning), and the test
\* that guards the reset of the clock and the allocation
Thread_StartIO_Count(t) ==
    /\ threads[t].pc = "StartIO_Count"
    /\ gDevice_IOIsRunning' =
           IF threads[t].device = kObjectID_Device
           THEN (gDevice_IOIsRunning + 1) % (2 ^ CounterBits)
           ELSE gDevice_IOIsRunning
    /\ gDevice2_IOIsRunning' =
           IF threads[t].device = kObjectID_Device2
           THEN (gDevice2_IOIsRunning + 1) % (2 ^ CounterBits)
           ELSE gDevice2_IOIsRunning
    /\ Goto(t, IF StartIO_Allocates(gDevice_IOIsRunning', gDevice2_IOIsRunning',
                                    gRingBuffer)
               THEN "StartIO_ResetStamps"
               ELSE "StartIO_Unlock")
    /\ zeroTimeStamp' = IF gDevice_IOIsRunning = 0 /\ gDevice2_IOIsRunning = 0
                        THEN NoZeroTimeStamp
                        ELSE zeroTimeStamp
    /\ UNCHANGED << clock, rate, controls, transport, hostTime, configRequests,
                    lastCall, locks >>

\* BlackHole_StartIO: gDevice_NumberTimeStamps = 0; gDevice_AnchorSampleTime = 0;
Thread_StartIO_ResetStamps(t) ==
    /\ threads[t].pc = "StartIO_ResetStamps"
    /\ gDevice_NumberTimeStamps' = 0
    /\ gDevice_AnchorSampleTime' = 0
    /\ Goto(t, "StartIO_ResetAnchor")
    /\ UNCHANGED << counters, gDevice_AnchorHostTime, gDevice_PreviousTicks, rate,
                    controls, transport, hostTime, configRequests, zeroTimeStamp,
                    lastCall, locks >>

\* BlackHole_StartIO: gDevice_AnchorHostTime = mach_absolute_time();
Thread_StartIO_ResetAnchor(t) ==
    /\ threads[t].pc = "StartIO_ResetAnchor"
    /\ gDevice_AnchorHostTime' = hostTime
    /\ Goto(t, "StartIO_ResetTicks")
    /\ UNCHANGED << counters, gDevice_NumberTimeStamps, gDevice_AnchorSampleTime,
                    gDevice_PreviousTicks, rate, controls, transport, hostTime,
                    configRequests, zeroTimeStamp, lastCall, locks >>

\* BlackHole_StartIO: gDevice_PreviousTicks = 0; gRingBuffer = calloc(...);
Thread_StartIO_ResetTicks(t) ==
    /\ threads[t].pc = "StartIO_ResetTicks"
    /\ gDevice_PreviousTicks' = 0
    /\ gRingBuffer' = calloc(kRing_Buffer_Frame_Size * kNumber_Of_Channels)
    /\ Goto(t, "StartIO_Unlock")
    /\ UNCHANGED << counters, gDevice_NumberTimeStamps, gDevice_AnchorSampleTime,
                    gDevice_AnchorHostTime, rate, controls, lastOutputSampleTime,
                    isBufferClear, memFault, hostTime, configRequests, zeroTimeStamp,
                    lastCall, locks >>

\* BlackHole_StartIO: pthread_mutex_unlock(&gPlugIn_StateMutex), and the return
Thread_StartIO_Unlock(t) ==
    /\ threads[t].pc = "StartIO_Unlock"
    /\ Unlock_StateMutex(t)
    /\ threads' = [threads EXCEPT ![t] = Idle]
    /\ lastCall' = [op |-> "StartIO", device |-> threads[t].device,
                    status |-> kAudioHardwareNoError]
    /\ UNCHANGED << IOFrame, transport, gDevice_IOMutex >>

\* BlackHole_StopIO: pthread_mutex_lock(&gPlugIn_StateMutex)
Thread_StopIO_Acquire(t) ==
    /\ threads[t].pc = "StopIO_Lock"
    /\ Lock_StateMutex(t)
    /\ Goto(t, "StopIO_Count")
    /\ UNCHANGED << IOFrame, transport, lastCall, gDevice_IOMutex >>

\* BlackHole_StopIO: the locked part, pthread_mutex_unlock, and the return
Thread_StopIO_Unlock(t) ==
    /\ threads[t].pc = "StopIO_Count"
    /\ StopIO_Locked(threads[t].device)
    /\ Unlock_StateMutex(t)
    /\ threads' = [threads EXCEPT ![t] = Idle]
    /\ UNCHANGED gDevice_IOMutex

\* BlackHole_GetZeroTimeStamp: the checks of its arguments, then
\* pthread_mutex_lock(&gDevice_IOMutex)
Thread_GetZeroTimeStamp_Acquire(t, inDeviceObjectID) ==
    /\ threads[t] = Idle
    /\ inDeviceObjectID \in DeviceIDs
    /\ Lock_IOMutex(t)
    /\ threads' = [threads EXCEPT ![t] = [pc |-> "GetZeroTimeStamp_Locked",
                                          device |-> inDeviceObjectID]]
    /\ UNCHANGED << IOFrame, transport, lastCall, gPlugIn_StateMutex >>

\* BlackHole_GetZeroTimeStamp: the locked part, pthread_mutex_unlock, and the return
Thread_GetZeroTimeStamp_Unlock(t) ==
    /\ threads[t].pc = "GetZeroTimeStamp_Locked"
    /\ BlackHole_GetZeroTimeStamp(threads[t].device)
    /\ Unlock_IOMutex(t)
    /\ threads' = [threads EXCEPT ![t] = Idle]
    /\ UNCHANGED gPlugIn_StateMutex

\* BlackHole_SetControlPropertyData, kObjectID_Mute_*_Master:
\* pthread_mutex_lock(&gPlugIn_StateMutex)
Thread_SetMute_Acquire(t, inObjectID, value) ==
    /\ threads[t] = Idle
    /\ Lock_StateMutex(t)
    /\ threads' = [threads EXCEPT ![t] = [pc |-> "SetMute_Locked",
                                          object |-> inObjectID,
                                          value |-> value]]
    /\ UNCHANGED << IOFrame, transport, lastCall, gDevice_IOMutex >>

\* the write of gMute_Master_Value, pthread_mutex_unlock, and the return
Thread_SetMute_Unlock(t) ==
    /\ threads[t].pc = "SetMute_Locked"
    /\ SetControl_Mute(threads[t].object, threads[t].value)
    /\ Unlock_StateMutex(t)
    /\ threads' = [threads EXCEPT ![t] = Idle]
    /\ UNCHANGED gDevice_IOMutex

\* BlackHole_SetDevicePropertyData, kAudioDevicePropertyNominalSampleRate: the check
\* of the rate, made without the mutex, then pthread_mutex_lock(&gPlugIn_StateMutex)
Thread_SetSampleRate_Acquire(t, inObjectID, sampleRate) ==
    /\ threads[t] = Idle
    /\ inObjectID \in DeviceIDs
    /\ IF ~is_valid_sample_rate(sampleRate)
       THEN /\ lastCall' = [op |-> "SetDeviceSampleRate", value |-> sampleRate,
                            status |-> UnsupportedSampleRateStatus]
            /\ UNCHANGED << threads, locks >>
       ELSE /\ sampleRate # gDevice_SampleRate => Pending < MaxPending
            /\ Lock_StateMutex(t)
            /\ threads' = [threads EXCEPT ![t] = [pc |-> "SetSampleRate_Locked",
                                                  object |-> inObjectID,
                                                  value |-> sampleRate]]
            /\ UNCHANGED << lastCall, gDevice_IOMutex >>
    /\ UNCHANGED << IOFrame, transport >>

\* theOldSampleRate = gDevice_SampleRate; gDevice_RequestedSampleRate = ...;
\* pthread_mutex_unlock; the request to the host; and the return
Thread_SetSampleRate_Unlock(t) ==
    /\ threads[t].pc = "SetSampleRate_Locked"
    /\ BlackHole_SetDevicePropertyData(threads[t].object, threads[t].value)
    /\ Unlock_StateMutex(t)
    /\ threads' = [threads EXCEPT ![t] = Idle]
    /\ UNCHANGED gDevice_IOMutex

\* BlackHole_PerformDeviceConfigurationChange, called by the host for a request it was
\* handed, case ChangeAction_SetSampleRate: the checks of its arguments
Thread_Perform_Check(t, inChangeAction) ==
    /\ threads[t] = Idle
    /\ inChangeAction = ChangeAction_SetSampleRate
    /\ configRequests[inChangeAction] > 0
    /\ configRequests' = [configRequests EXCEPT ![inChangeAction] = @ - 1]
    /\ threads' = [threads EXCEPT ![t] = [pc |-> "Perform_Lock",
                                          action |-> inChangeAction]]
    /\ UNCHANGED << counters, clock, rate, controls, hostTime, zeroTimeStamp,
                    transport, lastCall, locks >>

\* the first pthread_mutex_lock(&gPlugIn_StateMutex) of the case
Thread_Perform_Acquire(t) ==
    /\ threads[t].pc = "Perform_Lock"
    /\ Lock_StateMutex(t)
    /\ Goto(t, "Perform_ReadRequested")
    /\ UNCHANGED << IOFrame, transport, lastCall, gDevice_IOMutex >>

\* newSampleRate = gDevice_RequestedSampleRate; pthread_mutex_unlock;
Thread_Perform_ReadRequested(t) ==
    /\ threads[t].pc = "Perform_ReadRequested"
    /\ Unlock_StateMutex(t)
    /\ threads' = [threads EXCEPT ![t] = [pc |-> "Perform_Validate",
                                          action |-> threads[t].action,
                                          newSampleRate |-> gDevice_RequestedSampleRate]]
    /\ UNCHANGED << IOFrame, transport, lastCall, gDevice_IOMutex >>

\* FailWithAction(!is_valid_sample_rate(newSampleRate), ...), with no mutex held
Thread_Perform_Validate(t) ==
    /\ threads[t].pc = "Perform_Validate"
    /\ IF ~is_valid_sample_rate(threads[t].newSampleRate)
       THEN /\ threads' = [threads EXCEPT ![t] = Idle]
            /\ lastCall' = [op |-> "Perform", action |-> threads[t].action,
                            status |-> kAudioHardwareBadObjectError]
       ELSE /\ Goto(t, "Perform_Lock2")
            /\ UNCHANGED lastCall
    /\ UNCHANGED << IOFrame, transport, locks >>

\* the second pthread_mutex_lock(&gPlugIn_StateMutex) of the case
Thread_Perform_Acquire2(t) ==
    /\ threads[t].pc = "Perform_Lock2"
    /\ Lock_StateMutex(t)
    /\ Goto(t, "Perform_Apply")
    /\ UNCHANGED << IOFrame, transport, lastCall, gDevice_IOMutex >>

\* the write of the rate and of what is derived from it; pthread_mutex_unlock; return
Thread_Perform_Apply(t) ==
    /\ threads[t].pc = "Perform_Apply"
    /\ PerformSetSampleRate(threads[t].newSampleRate)
    /\ lastCall' = [op |-> "Perform", action |-> threads[t].action,
                    status |-> kAudioHardwareNoError]
    /\ Unlock_StateMutex(t)
    /\ threads' = [threads EXCEPT ![t] = Idle]
    /\ UNCHANGED << counters, clock, gDevice_RequestedSampleRate, controls, transport,
                    hostTime, configRequests, zeroTimeStamp, gDevice_IOMutex >>

\* StartIO and StopIO called from several threads at once
NextThreads ==
    /\ UNCHANGED << build, companion, locks, writtenInSession, ioStarted >>
    /\ \/ \E t \in Threads, d \in DeviceIDs : Thread_StartIO_Check(t, d)
       \/ \E t \in Threads : Thread_StartIO_Locked(t)
       \/ \E t \in Threads, d \in DeviceIDs : Thread_StopIO_Check(t, d)
       \/ \E t \in Threads : Thread_StopIO_Locked(t)

SpecThreads == Init /\ [][NextThreads]_vars

\* IO cycles of the two devices running at the same time on the one ring buffer
NextRace ==
    /\ UNCHANGED << build, companion, locks, writtenInSession, ioStarted >>
    /\ \/ (UNCHANGED threads /\ \E d \in DeviceIDs : HostStartsClient(d))
       \/ \E t \in Threads, d \in DeviceIDs, s \in {0, 1} :
              Thread_Read_SilenceTest(t, d, 1, s)
       \/ \E t \in Threads : Thread_Read_FlagTest(t)
       \/ \E t \in Threads : Thread_Read_Clear(t)
       \/ \E t \in Threads : Thread_Read_SetFlag(t)
       \/ \E t \in Threads : Thread_Read_Copy(t)
       \/ \E t \in Threads, d \in DeviceIDs, s \in {0, 1}, late \in {0, 1} :
              Thread_Write_OverloadTest(t, d, 1, s, s + 1 + kLatency_Frame_Size + late)
       \/ \E t \in Threads : Thread_Write_Copy(t)
       \/ \E t \in Threads : Thread_Write_Mark(t)
       \/ \E t \in Threads : Thread_Write_SetFlag(t)

SpecRace == Init /\ [][NextRace]_vars

\* the object lists of a device, queried in every build
NextObjects ==
    /\ UNCHANGED << threads, build, companion, locks, writtenInSession, ioStarted >>
    /\ \/ \E o \in DeviceIDs, sel \in ListSelectors, sc \in Scopes :
              BlackHole_GetPropertyDataSize(o, sel, sc)
       \/ \E o \in DeviceIDs, sel \in ListSelectors, sc \in Scopes, size \in DataSizes :
              BlackHole_GetPropertyData(o, sel, sc, size)
       \/ \E item \in {1} : SetControl_ClockSource(item)
       \/ \E a \in {ChangeAction_EnablePitchControl} : HostPerforms(a)

SpecObjects == InitBuilds /\ [][NextObjects]_vars

\* the companion client
NextCompanion ==
    \/ \E id \in ClientDeviceIds : Client_main(id)
    \/ Client_connect
    \/ \E m \in EventBytes, r \in {0 - 1} \cup (1..MaxProcesses) : BlackHole_listen(m, r)
    \/ Client_readError

SpecCompanion == Init /\ [][NextCompanion]_vars

\* the companion client from any command line
SpecStartup == InitStartup /\ [][NextCompanion]_vars

\* the entry points called from several threads at once, with the two mutexes
NextLocks ==
    /\ UNCHANGED << build, companion, writtenInSession, ioStarted >>
    /\ \/ (UNCHANGED locks /\ \E t \in Threads : Thread_StartIO_Check(t, kObjectID_Device))
       \/ \E t \in Threads : Thread_StartIO_Acquire(t)
       \/ \E t \in Threads : Thread_StartIO_Count(t)
       \/ \E t \in Threads : Thread_StartIO_ResetStamps(t)
       \/ \E t \in Threads : Thread_StartIO_ResetAnchor(t)
       \/ \E t \in Threads : Thread_StartIO_ResetTicks(t)
       \/ \E t \in Threads : Thread_StartIO_Unlock(t)
       \/ (UNCHANGED locks /\ \E t \in Threads : Thread_StopIO_Check(t, kObjectID_Device))
       \/ \E t \in Threads : Thread_StopIO_Acquire(t)
       \/ \E t \in Threads : Thread_StopIO_Unlock(t)
       \/ \E t \in Threads : Thread_GetZeroTimeStamp_Acquire(t, kObjectID_Device)
       \/ \E t \in Threads : Thread_GetZeroTimeStamp_Unlock(t)
       \/ \E t \in Threads, v \in {0, 1} :
              Thread_SetMute_Acquire(t, kObjectID_Mute_Output_Master, v)
       \/ \E t \in Threads : Thread_SetMute_Unlock(t)
       \/ \E t \in Threads, r \in {0, 96000} :
              Thread_SetSampleRate_Acquire(t, kObjectID_Device, r)
       \/ \E t \in Threads : Thread_SetSampleRate_Unlock(t)
       \/ \E t \in Threads, a \in ChangeActions : Thread_Perform_Check(t, a)
       \/ \E t \in Threads : Thread_Perform_Acquire(t)
       \/ \E t \in Threads : Thread_Perform_ReadRequested(t)
       \/ \E t \in Threads : Thread_Perform_Validate(t)
       \/ \E t \in Threads : Thread_Perform_Acquire2(t)
       \/ \E t \in Threads : Thread_Perform_Apply(t)
       \/ (UNCHANGED << threads, locks >> /\ \E a \in ChangeActions : HostAborts(a))
       \/ (UNCHANGED << threads, locks >> /\ HostReads(kObjectID_Device, 1, 0))

SpecLocks == Init /\ [][NextLocks]_vars

\* read cycles of a device while its mute control is set from another thread
NextMutedRead ==
    /\ UNCHANGED << build, companion, writtenInSession, ioStarted >>
    /\ \/ /\ gPlugIn_StateMutex = PTHREAD_MUTEX_INITIALIZER
          /\ UNCHANGED << threads, locks >>
          /\ HostStartsClient(kObjectID_Device)
       \/ (UNCHANGED << threads, locks >> /\ HostWrites(kObjectID_Device, 1, 0, 0))
       \/ \E t \in Threads, v \in {0, 1} :
              Thread_SetMute_Acquire(t, kObjectID_Mute_Output_Master, v)
       \/ \E t \in Threads : Thread_SetMute_Unlock(t)
       \/ (UNCHANGED locks /\ \E t \in Threads : Thread_Read_SilenceTest(t, kObjectID_Device, 1, 0))
       \/ (UNCHANGED locks /\ \E t \in Threads : Thread_Read_FlagTest(t))
       \/ (UNCHANGED locks /\ \E t \in Threads : Thread_Read_Clear(t))
       \/ (UNCHANGED locks /\ \E t \in Threads : Thread_Read_SetFlag(t))
       \/ (UNCHANGED locks /\ \E t \in Threads : Thread_Read_Copy(t))

SpecMutedRead == Init /\ [][NextMutedRead]_vars

\* the configuration change protocol with a host that also calls Perform unasked
NextPerform ==
    /\ UNCHANGED << threads, build, companion, locks, writtenInSession, ioStarted >>
    /\ \/ \E d \in DeviceIDs, r \in SampleRateArgs : BlackHole_SetDevicePropertyData(d, r)
       \/ \E r \in SampleRateArgs :
              BlackHole_SetStreamPropertyData(kObjectID_Stream_Output, r)
       \/ \E a \in ChangeActions : HostPerforms(a)
       \/ \E v \in PitchArgs : SetControl_Pitch(v)
       \/ \E a \in ChangeActions : HostAborts(a)
       \/ \E d \in DeviceIDs : HostPerformsUnrequested(d, ChangeAction_SetSampleRate)

SpecPerform == Init /\ [][NextPerform]_vars

\* sample rate changes while the two devices start and stop
NextShared ==
    /\ UNCHANGED << threads, build, companion, locks, writtenInSession, ioStarted >>
    /\ \/ \E d \in DeviceIDs : HostStartsClient(d)
       \/ \E d \in DeviceIDs : HostStopsClient(d)
       \/ \E d \in DeviceIDs, r \in {48000, 96000} : BlackHole_SetDevicePropertyData(d, r)
       \/ \E o \in {kObjectID_Stream_Input, kObjectID_Stream_Output}, r \in {48000, 96000} :
              BlackHole_SetStreamPropertyData(o, r)
       \/ \E a \in ChangeActions : HostPerformsStopped(a)
       \/ \E a \in ChangeActions : HostAbortsStopped(a)

SpecShared == Init /\ [][NextShared]_vars

\* IO sessions one after the other.  writtenInSession is history: whether a WriteMix
\* cycle has been performed since the StartIO that allocated the ring buffer
NextSessions ==
    /\ UNCHANGED << threads, build, companion, locks, ioStarted >>
    /\ \/ \E d \in DeviceIDs :
              /\ HostStartsClient(d)
              /\ writtenInSession' = IF gRingBuffer = NULL THEN FALSE ELSE writtenInSession
       \/ \E d \in DeviceIDs :
              /\ HostStopsClient(d)
              /\ UNCHANGED writtenInSession
       \/ \E d \in DeviceIDs, n \in FrameCounts, t \in SampleTimes :
              /\ HostReads(d, n, t)
              /\ UNCHANGED writtenInSession
       \/ \E d \in DeviceIDs, n \in FrameCounts, t \in SampleTimes :
              /\ HostWrites(d, n, t, 0)
              /\ writtenInSession' = TRUE

SpecSessions == Init /\ [][NextSessions]_vars

(***************************************************************************)
(* Clients of the two devices.  Client t is the thread t of the host;      *)
(* ioStarted[t] is the device on which its BlackHole_StartIO has returned  *)
(* kAudioHardwareNoError and its BlackHole_StopIO has not returned yet, or *)
(* 0.  The host calls BlackHole_DoIOOperation for a client on that device  *)
(* only, and stops a client outside its IO cycles.                         *)
(***************************************************************************)
Client_StartIO(t, inDeviceObjectID) ==
    /\ ioStarted[t] = 0
    /\ Thread_StartIO_Check(t, inDeviceObjectID)
    /\ UNCHANGED ioStarted

Client_StartIO_Return(t) ==
    /\ Thread_StartIO_Locked(t)
    /\ ioStarted' = [ioStarted EXCEPT ![t] = IF lastCall'.status = kAudioHardwareNoError
                                              THEN threads[t].device ELSE 0]

Client_StopIO(t) ==
    /\ ioStarted[t] # 0
    /\ Thread_StopIO_Check(t, ioStarted[t])
    /\ UNCHANGED ioStarted

Client_StopIO_Return(t) ==
    /\ Thread_StopIO_Locked(t)
    /\ ioStarted' = [ioStarted EXCEPT ![t] = 0]

Client_ReadInput(t, inputSampleTime) ==
    /\ ioStarted[t] # 0
    /\ Thread_Read_SilenceTest(t, ioStarted[t], 1, inputSampleTime)

Client_WriteMix(t, outputSampleTime) ==
    /\ ioStarted[t] # 0
    /\ Thread_Write_OverloadTest(t, ioStarted[t], 1, outputSampleTime,
                                 outputSampleTime + 1 + kLatency_Frame_Size)

NextClients ==
    /\ UNCHANGED << build, companion, locks, writtenInSession >>
    /\ \/ \E t \in Threads, d \in DeviceIDs : Client_StartIO(t, d)
       \/ \E t \in Threads : Client_StartIO_Return(t)
       \/ \E t \in Threads : Client_StopIO(t)
       \/ \E t \in Threads : Client_StopIO_Return(t)
       \/ (UNCHANGED ioStarted /\ \E t \in Threads, s \in {0} : Client_ReadInput(t, s))
       \/ (UNCHANGED ioStarted /\ \E t \in Threads : Thread_Read_FlagTest(t))
       \/ (UNCHANGED ioStarted /\ \E t \in Threads : Thread_Read_Clear(t))
       \/ (UNCHANGED ioStarted /\ \E t \in Threads : Thread_Read_SetFlag(t))
       \/ (UNCHANGED ioStarted /\ \E t \in Threads : Thread_Read_Copy(t))
       \/ (UNCHANGED ioStarted /\ \E t \in Threads, s \in {0} : Client_WriteMix(t, s))
       \/ (UNCHANGED ioStarted /\ \E t \in Threads : Thread_Write_Copy(t))
       \/ (UNCHANGED ioStarted /\ \E t \in Threads : Thread_Write_Mark(t))
       \/ (UNCHANGED ioStarted /\ \E t \in Threads : Thread_Write_SetFlag(t))

SpecClients == Init /\ [][NextClients]_vars

(***************************************************************************)
(* The polled clock.  The host clock keeps advancing and the host keeps    *)
(* asking for the zero time stamp: mach_absolute_time() does not stop, and *)
(* the HAL calls BlackHole_GetZeroTimeStamp in every IO cycle of a device. *)
(* The sample rate changes only while the device is stopped.               *)
(***************************************************************************)
ProgressFrame ==
    UNCHANGED << threads, build, companion, locks, writtenInSession, ioStarted >>

NextProgress ==
    /\ ProgressFrame
    /\ \/ Tick
       \/ BlackHole_GetZeroTimeStamp(kObjectID_Device)
       \/ HostStartsClient(kObjectID_Device)
       \/ HostStopsClient(kObjectID_Device)
       \/ \E r \in {96000} : BlackHole_SetDevicePropertyData(kObjectID_Device, r)
       \/ \E a \in {ChangeAction_SetSampleRate} : HostPerformsStopped(a)
       \/ \E v \in {0, PitchOne} : SetControl_Pitch(v)
       \/ \E i \in {0, 1} : SetControl_ClockSource(i)

ProgressFairness ==
    /\ WF_vars(ProgressFrame /\ Tick)
    /\ WF_vars(ProgressFrame /\ BlackHole_GetZeroTimeStamp(kObjectID_Device))

SpecProgress == Init /\ [][NextProgress]_vars /\ ProgressFairness

\* the whole driver
Next == NextLifecycle \/ NextTransport \/ NextClock \/ NextSession \/ NextAlloc \/ NextThreads \/ NextRace
    \/ NextObjects \/ NextCompanion \/ NextLocks \/ NextMutedRead
    \/ NextPerform \/ NextShared \/ NextSessions \/ NextClients \/ NextProgress

Spec == Init /\ [][Next]_vars

(***************************************************************************)
(* Properties: the IO life cycle                                           *)
(***************************************************************************)
\* C1: after any sequence of StartIO and StopIO calls on the two devices, the ring
\* buffer is allocated if and only if at least one of the two run counters is
\* greater than 0.
C1_BufferIffRunning ==
    (gRingBuffer # NULL) <=> (gDevice_IOIsRunning > 0 \/ gDevice2_IOIsRunning > 0)

\* Device has stopped, Device2 still runs, and the buffer is still there
C1_Witness ==
    /\ lastCall.op = "StopIO"
    /\ lastCall.device = kObjectID_Device
    /\ lastCall.status = kAudioHardwareNoError
    /\ gDevice_IOIsRunning = 0
    /\ gDevice2_IOIsRunning > 0
    /\ gRingBuffer # NULL

\* C8: StopIO on a device whose run counter is 0 returns the illegal-operation status
\* and leaves both run counters, the ring buffer and the clock state unchanged.
C8_StopUnderflow ==
    [][\A d \in DeviceIDs :
          (Running(d) = 0 /\ BlackHole_StopIO(d)) =>
              /\ lastCall'.status = kAudioHardwareIllegalOperationError
              /\ UNCHANGED << counters, gRingBuffer, clock >>]_vars

\* a StopIO on Device2, which is not running, in a session of Device that has
\* passed a zero time stamp
C8_Witness ==
    /\ lastCall.op = "StopIO"
    /\ lastCall.device = kObjectID_Device2
    /\ lastCall.status = kAudioHardwareIllegalOperationError
    /\ gDevice2_IOIsRunning = 0
    /\ gDevice_IOIsRunning > 0
    /\ gRingBuffer # NULL
    /\ gDevice_NumberTimeStamps > 0

\* C9: StartIO on a device whose run counter is at its maximum returns the
\* illegal-operation status and leaves the counter at the maximum; nothing else changes.
C9_StartOverflow ==
    [][\A d \in DeviceIDs :
          (Running(d) = UINT64_MAX /\ BlackHole_StartIO(d)) =>
              /\ lastCall'.status = kAudioHardwareIllegalOperationError
              /\ Running(d)' = UINT64_MAX
              /\ UNCHANGED << counters, clock, rate, controls, transport >>]_vars

\* a StartIO refused at the maximum
C9_Witness ==
    /\ lastCall.op = "StartIO"
    /\ lastCall.device = kObjectID_Device
    /\ lastCall.status = kAudioHardwareIllegalOperationError
    /\ gDevice_IOIsRunning = UINT64_MAX
    /\ gRingBuffer # NULL

(***************************************************************************)
(* Properties: the audio transport                                         *)
(***************************************************************************)
\* every step of the transport specification is one driver call, which lastCall
\* records: the step is a WriteMix that stored its frames
WriteStored ==
    /\ lastCall'.op = kAudioServerPlugInIOOperationWriteMix
    /\ lastCall'.status = kAudioHardwareNoError

\* the step is a ReadInput of the frames that the call before it, a WriteMix,
\* has stored
ReadsBackWrite ==
    /\ lastCall.op = kAudioServerPlugInIOOperationWriteMix
    /\ lastCall.status = kAudioHardwareNoError
    /\ lastCall'.op = kAudioServerPlugInIOOperationReadInput
    /\ lastCall'.status = kAudioHardwareNoError
    /\ lastCall'.sampleTime = lastCall.sampleTime
    /\ lastCall'.frames = lastCall.frames

\* the ring buffer frames that n frames at sample time s occupy
FramesOf(s, n) == {(s + i) % kRing_Buffer_Frame_Size : i \in 0..(n - 1)}

\* frame i of buf holds frame i of the tone written at sample time s, for the n frames
\* of a cycle, frame s + i of the stream at ring frame (s + i) mod C
StoredInOrder(ring, s, n) ==
    \A i \in 0..(n - 1), c \in 1..kNumber_Of_Channels :
        ring[((s + i) % kRing_Buffer_Frame_Size) * kNumber_Of_Channels + c]
            = Tone(s, n)[i * kNumber_Of_Channels + c]

\* C2: a WriteMix of n <= C frames at sample time s that meets its deadline stores
\* frame i at ring frame (s + i) mod C, that is C - (s mod C) frames at the tail and the
\* rest at the head when the range crosses the end, touches no other frame and no
\* memory outside the buffer; a ReadInput of n frames at s right after it, with mute off
\* and gain 1, returns exactly those n frames in order.
C2_WrapRoundTrip ==
    [][/\ WriteStored =>
            /\ ~memFault'
            /\ Len(gRingBuffer') = kRing_Buffer_Frame_Size * kNumber_Of_Channels
            /\ StoredInOrder(gRingBuffer', lastCall'.sampleTime, lastCall'.frames)
            /\ \A f \in (0..(kRing_Buffer_Frame_Size - 1))
                          \ FramesOf(lastCall'.sampleTime, lastCall'.frames) :
                   \A c \in 1..kNumber_Of_Channels :
                       gRingBuffer'[f * kNumber_Of_Channels + c]
                           = gRingBuffer[f * kNumber_Of_Channels + c]
       /\ (ReadsBackWrite /\ ~gMute_Master_Value /\ gVolume_Master_Value = GainOne) =>
            /\ ~memFault'
            /\ lastCall'.ioMainBuffer = Tone(lastCall.sampleTime, lastCall.frames)]_vars

\* a read of a range that crosses the end of the ring buffer, in the buffer's second
\* lap, has returned the frames written there
C2_Witness ==
    /\ lastCall.op = kAudioServerPlugInIOOperationReadInput
    /\ lastCall.status = kAudioHardwareNoError
    /\ ~lastCall.silent
    /\ lastCall.sampleTime >= kRing_Buffer_Frame_Size
    /\ lastCall.sampleTime % kRing_Buffer_Frame_Size # 0
    /\ (lastCall.sampleTime % kRing_Buffer_Frame_Size) + lastCall.frames
           > kRing_Buffer_Frame_Size
    /\ gVolume_Master_Value = GainOne
    /\ lastCall.ioMainBuffer = Tone(lastCall.sampleTime, lastCall.frames)
    /\ ~memFault

\* C4: after StartIO, a ReadInput of n frames at sample time t right after a WriteMix of
\* n frames at t returns each written sample multiplied by the current gain when mute
\* is off, and all zeros when mute is on.
C4_Loopback ==
    [][ReadsBackWrite =>
          lastCall'.ioMainBuffer =
              [j \in 1..(lastCall.frames * kNumber_Of_Channels) |->
                  IF gMute_Master_Value
                  THEN 0
                  ELSE (Tone(lastCall.sampleTime, lastCall.frames)[j]
                            * gVolume_Master_Value) \div GainOne]]_vars

\* a read at a gain of a tenth has returned a tenth of the frames written
C4_Witness ==
    /\ lastCall.op = kAudioServerPlugInIOOperationReadInput
    /\ lastCall.status = kAudioHardwareNoError
    /\ ~lastCall.silent
    /\ ~gMute_Master_Value
    /\ gVolume_Master_Value = GainOne \div 10
    /\ lastOutputSampleTime = lastCall.sampleTime + lastCall.frames
    /\ \A j \in 1..(lastCall.frames * kNumber_Of_Channels) :
           lastCall.ioMainBuffer[j] * 10 = Tone(lastCall.sampleTime, lastCall.frames)[j]

\* C5: a WriteMix whose current sample time is later than its output sample time plus
\* the frame count plus the latency returns an error and leaves the ring buffer,
\* lastOutputSampleTime and isBufferClear unchanged; the next WriteMix, if it meets its
\* deadline, stores its frames normally.
C5_Overload ==
    [][lastCall'.op = kAudioServerPlugInIOOperationWriteMix =>
          /\ (lastCall'.currentTime
                  > lastCall'.sampleTime + lastCall'.frames + kLatency_Frame_Size) =>
                /\ lastCall'.status = kAudioHardwareUnspecifiedError
                /\ UNCHANGED << gRingBuffer, lastOutputSampleTime, isBufferClear >>
          /\ ( /\ lastCall.op = kAudioServerPlugInIOOperationWriteMix
               /\ lastCall.status = kAudioHardwareUnspecifiedError
               /\ lastCall'.currentTime
                      <= lastCall'.sampleTime + lastCall'.frames + kLatency_Frame_Size ) =>
                /\ lastCall'.status = kAudioHardwareNoError
                /\ StoredInOrder(gRingBuffer', lastCall'.sampleTime, lastCall'.frames)
                /\ lastOutputSampleTime' = lastCall'.sampleTime + lastCall'.frames
                /\ ~isBufferClear']_vars

\* a late write has been refused with frames of an earlier write in the ring buffer
C5_Witness ==
    /\ lastCall.op = kAudioServerPlugInIOOperationWriteMix
    /\ lastCall.status = kAudioHardwareUnspecifiedError
    /\ ~isBufferClear
    /\ lastOutputSampleTime > 0
    /\ lastOutputSampleTime # lastCall.sampleTime + lastCall.frames
    /\ \E j \in DOMAIN gRingBuffer : gRingBuffer[j] # 0

(***************************************************************************)
(* Properties: configuration changes                                       *)
(***************************************************************************)
\* every step of the configuration specification is one driver call, which lastCall
\* records: the step is a call of one of the two sample rate setters
SetsSampleRate == lastCall'.op \in {"SetDeviceSampleRate", "SetStreamFormat"}

\* the step is a Perform of ChangeAction_SetSampleRate
PerformsSetSampleRate ==
    /\ lastCall'.op = "Perform"
    /\ lastCall'.action = ChangeAction_SetSampleRate

\* C6: the requested rate is at every moment the whitelisted rate most recently handed
\* to a setter (the last request wins), and a Perform of the sample rate change sets
\* the sample rate to it and the host ticks per frame to exactly host frequency / rate.
C6_PerformSetsLastRequest ==
    [][/\ (SetsSampleRate /\ is_valid_sample_rate(lastCall'.value)) =>
              gDevice_RequestedSampleRate' = lastCall'.value
       /\ ~(SetsSampleRate /\ is_valid_sample_rate(lastCall'.value)) =>
              UNCHANGED gDevice_RequestedSampleRate
       /\ (PerformsSetSampleRate /\ is_valid_sample_rate(gDevice_RequestedSampleRate)) =>
              /\ lastCall'.status = kAudioHardwareNoError
              /\ gDevice_SampleRate' = gDevice_RequestedSampleRate
              /\ gDevice_HostTicksPerFrame' * gDevice_SampleRate' = HostClockFrequency]_vars

\* a Perform has moved the device from 48000 to 96000 frames a second
C6_Witness ==
    /\ lastCall.op = "Perform"
    /\ lastCall.action = ChangeAction_SetSampleRate
    /\ lastCall.status = kAudioHardwareNoError
    /\ gDevice_RequestedSampleRate = 96000
    /\ gDevice_SampleRate = 96000
    /\ gDevice_HostTicksPerFrame = HostClockFrequency \div 96000

\* C7: a request to change the sample rate that the host answers with Abort leaves the
\* sample rate, the host ticks per frame and the adjusted ticks per frame as they were
\* before the request: neither the setter nor the Abort writes them.
C7_AbortKeepsRate ==
    [][(SetsSampleRate \/ lastCall'.op = "Abort") =>
          UNCHANGED << gDevice_SampleRate, gDevice_HostTicksPerFrame,
                       gDevice_AdjustedTicksPerFrame >>]_vars

\* an Abort of a sample rate change away from 96000 has left the device at 96000
C7_Witness ==
    /\ lastCall.op = "Abort"
    /\ lastCall.action = ChangeAction_SetSampleRate
    /\ gDevice_RequestedSampleRate = 48000
    /\ gDevice_SampleRate = 96000
    /\ gDevice_HostTicksPerFrame = HostClockFrequency \div 96000

\* C10: a sample rate outside the supported set, handed to the device's sample rate
\* property or to a stream's format, is refused at once with the unsupported-value
\* status, changes neither the requested nor the current sample rate and sends no
\* request to the host.
C10_InvalidRateUnsupported ==
    [][(SetsSampleRate /\ ~is_valid_sample_rate(lastCall'.value)) =>
          /\ lastCall'.status = kAudioDeviceUnsupportedFormatError
          /\ UNCHANGED << rate, configRequests >>]_vars

\* the device's sample rate property has refused 22050 with the illegal-operation status
C10_Witness ==
    /\ lastCall.op = "SetDeviceSampleRate"
    /\ lastCall.value = 22050
    /\ lastCall.status = kAudioHardwareIllegalOperationError
    /\ gDevice_SampleRate = 48000

(***************************************************************************)
(* Properties: the device clock                                            *)
(***************************************************************************)
\* C3: within one IO session the zero time stamps that GetZeroTimeStamp returns, at
\* host times that do not decrease and with changes of the sample rate, the pitch and
\* the clock source between the calls, never decrease in sample time or in host time,
\* and the sample time is gDevice_NumberTimeStamps * kDevice_RingBufferSize.
C3_ClockMonotonic ==
    /\ [](zeroTimeStamp.valid =>
             zeroTimeStamp.sampleTime = gDevice_NumberTimeStamps * kDevice_RingBufferSize)
    /\ [][(zeroTimeStamp.valid /\ zeroTimeStamp'.valid) =>
             /\ zeroTimeStamp'.sampleTime >= zeroTimeStamp.sampleTime
             /\ zeroTimeStamp'.hostTime >= zeroTimeStamp.hostTime]_vars

\* a session whose first period ran at 48000 and whose second ran at 96000
C3_Witness ==
    /\ zeroTimeStamp.valid
    /\ lastCall.op = "GetZeroTimeStamp"
    /\ gDevice_SampleRate = 96000
    /\ gDevice_NumberTimeStamps = 2
    /\ zeroTimeStamp.sampleTime = 2 * kDevice_RingBufferSize
    /\ gDevice_PreviousTicks =
           (HostTicksPerFrame(48000) + HostTicksPerFrame(96000)) * kDevice_RingBufferSize

(***************************************************************************)
(* Properties: the pitch control                                           *)
(***************************************************************************)
\* C11: for every pitch the setter can store (it clamps its input to [0, 1]) the
\* adjusted ticks per frame lie within 2% of the host ticks per frame, and at a pitch
\* of 0.5 the two are equal.
C11_PitchBounds ==
    /\ gPitch_Adjust \in 0..PitchOne
    /\ 100 * gDevice_AdjustedTicksPerFrame >= 98 * gDevice_HostTicksPerFrame
    /\ 100 * gDevice_AdjustedTicksPerFrame <= 102 * gDevice_HostTicksPerFrame
    /\ (2 * gPitch_Adjust = PitchOne) =>
           gDevice_AdjustedTicksPerFrame = gDevice_HostTicksPerFrame

\* a pitch above 1 has been clamped to 1 and the device then moved to 96000: the
\* adjusted ticks per frame differ from the host ticks per frame
C11_Witness ==
    /\ gPitch_Adjust = PitchOne
    /\ gDevice_SampleRate = 96000
    /\ gDevice_HostTicksPerFrame = HostClockFrequency \div 96000
    /\ gDevice_AdjustedTicksPerFrame < gDevice_HostTicksPerFrame

\* C12: a pending sample rate is resolved once: after an Abort has discarded it no
\* pending value remains, so a Perform that follows the Abort with no setter call in
\* between applies nothing.
C12_AbortDiscardsPending ==
    [][( /\ lastCall.op = "Abort"
         /\ lastCall.action = ChangeAction_SetSampleRate
         /\ PerformsSetSampleRate ) =>
          UNCHANGED << gDevice_SampleRate, gDevice_HostTicksPerFrame,
                       gDevice_AdjustedTicksPerFrame >>]_vars

C16_AllocationFailureReported ==
    (lastCall.op = "StartIO" /\ lastCall.status = kAudioHardwareNoError) =>
        gRingBuffer # NULL

(***************************************************************************)
(* Properties: calls that run at the same time                             *)
(***************************************************************************)
\* C15: with StartIO and StopIO called from several threads at once, the test of a run
\* counter and its increment or decrement being separate steps, no run counter ever
\* goes below 0 (wraps to its maximum) or past its maximum (wraps to 0).
C15_CountersNeverWrap ==
    [][\A d \in DeviceIDs :
          /\ ~(Running(d) = 0 /\ Running(d)' = UINT64_MAX)
          /\ ~(Running(d) = UINT64_MAX /\ Running(d)' = 0)]_vars

\* both threads of the test passed the zero test of StopIO while the counter was 1
C15_Witness ==
    \E d \in DeviceIDs :
        /\ Running(d) = 1
        /\ \A t \in Threads : threads[t] = [pc |-> "StopIO_Lock", device |-> d]

\* the samples of the ring buffer are all zero (none, while it is not allocated)
RingIsZero == \A i \in 1..Len(gRingBuffer) : gRingBuffer[i] = 0

\* no IO cycle is between two of its steps
NoCycleInFlight == \A t \in Threads : threads[t] = Idle

\* C14: with a ReadInput cycle and a WriteMix cycle running at the same time, their
\* steps interleaved in any order, isBufferClear = true implies that every frame of
\* the ring buffer is zero; stated for the states in which every cycle has returned.
C14_ClearFlagMeansZero == (NoCycleInFlight /\ isBufferClear) => RingIsZero

\* a reader has cleared the ring buffer and not yet set the flag, a writer is under way
C14_Witness ==
    \E r, w \in Threads :
        /\ threads[r].pc = "Read_SetFlag"
        /\ threads[w].pc = "Write_Mark"
        /\ ~RingIsZero

(***************************************************************************)
(* Properties: the object lists of a device                                *)
(***************************************************************************)
\* the table of a device
ObjectListOf(objectID) ==
    IF objectID = kObjectID_Device THEN kDevice_ObjectList ELSE kDevice2_ObjectList

\* the ids of the objects of a device with the given type that are attached to the
\* scope (to any scope, for the global scope), in table order
ObjectsInScope(objectID, type, scope) ==
    LET Attached(o) ==
            /\ o.type = type
            /\ (scope = kAudioObjectPropertyScopeGlobal \/ o.scope = scope)
        chosen == SelectSeq(ObjectListOf(objectID), Attached)
    IN [i \in 1..Len(chosen) |-> chosen[i].id]

\* the last call was BlackHole_GetPropertyDataSize for the list
SizeQueried(mSelector) ==
    /\ lastCall.op = "GetPropertyDataSize"
    /\ lastCall.selector = mSelector

\* the last call was BlackHole_GetPropertyData for the list, with room for the whole list
DataQueried(mSelector) ==
    /\ lastCall.op = "GetPropertyData"
    /\ lastCall.selector = mSelector
    /\ lastCall.inDataSize >=
           GetDevicePropertyDataSize(lastCall.object, mSelector, lastCall.scope)

\* the last call asked kObjectID_Device of a build with input disabled and output enabled
OfOutputOnlyDevice ==
    /\ lastCall.object = kObjectID_Device
    /\ ~build.kDevice_HasInput
    /\ build.kDevice_HasOutput

\* C17: for kObjectID_Device built with input disabled and output enabled, OwnedObjects
\* has 3 entries (12 bytes) in Global scope, none in Input scope and exactly
\* [Stream_Output = 7, Volume_Output_Master = 8, Mute_Output_Master = 9] in Output
\* scope, and GetPropertyDataSize reports the bytes GetPropertyData returns.
C17_OwnedObjects ==
    /\ ((SizeQueried(kAudioObjectPropertyOwnedObjects) \/ DataQueried(kAudioObjectPropertyOwnedObjects))
            /\ OfOutputOnlyDevice)
         => lastCall.outDataSize =
                (IF lastCall.scope = kAudioObjectPropertyScopeInput THEN 0 ELSE 12)
    /\ (DataQueried(kAudioObjectPropertyOwnedObjects) /\ OfOutputOnlyDevice
            /\ lastCall.scope = kAudioObjectPropertyScopeOutput)
         => lastCall.outData = << 7, 8, 9 >>
    /\ DataQueried(kAudioObjectPropertyOwnedObjects)
         => lastCall.outDataSize =
                GetDevicePropertyDataSize(lastCall.object, lastCall.selector, lastCall.scope)

\* OwnedObjects of the output-only kObjectID_Device was fetched in Output scope
C17_Witness ==
    /\ DataQueried(kAudioObjectPropertyOwnedObjects)
    /\ OfOutputOnlyDevice
    /\ lastCall.scope = kAudioObjectPropertyScopeOutput
    /\ Len(lastCall.outData) > 3

\* C18: the Streams list of a device for a scope holds exactly the device's streams of
\* that scope (all its streams for Global), in table order, and GetPropertyDataSize
\* reports 4 bytes per such stream; for kObjectID_Device built with input disabled and
\* output enabled it is [Stream_Output = 7] (4 bytes) for Global and Output and empty
\* (0 bytes) for Input.
C18_StreamsList ==
    /\ SizeQueried(kAudioDevicePropertyStreams)
         => lastCall.outDataSize =
                4 * Len(ObjectsInScope(lastCall.object, kObjectType_Stream, lastCall.scope))
    /\ DataQueried(kAudioDevicePropertyStreams)
         => /\ lastCall.outData =
                   ObjectsInScope(lastCall.object, kObjectType_Stream, lastCall.scope)
            /\ lastCall.outDataSize = 4 * Len(lastCall.outData)
            /\ ~lastCall.overran
    /\ (DataQueried(kAudioDevicePropertyStreams) /\ OfOutputOnlyDevice)
         => lastCall.outData =
                (IF lastCall.scope = kAudioObjectPropertyScopeInput THEN << >> ELSE << 7 >>)

\* Streams of the output-only kObjectID_Device was fetched in Output scope
C18_Witness ==
    /\ DataQueried(kAudioDevicePropertyStreams)
    /\ OfOutputOnlyDevice
    /\ lastCall.scope = kAudioObjectPropertyScopeOutput
    /\ lastCall.outData = << kObjectID_Stream_Output >>

\* C19: the ControlList of a device for a scope holds exactly the device's controls
\* attached to that scope, and GetPropertyDataSize reports the bytes GetPropertyData
\* returns; for kObjectID_Device built with input disabled and output enabled it has 2
\* entries (8 bytes) in Global scope, none in Input scope and exactly
\* [Volume_Output_Master = 8, Mute_Output_Master = 9] in Output scope.
C19_ControlList ==
    /\ ((SizeQueried(kAudioObjectPropertyControlList) \/ DataQueried(kAudioObjectPropertyControlList))
            /\ OfOutputOnlyDevice)
         => lastCall.outDataSize =
                (IF lastCall.scope = kAudioObjectPropertyScopeInput THEN 0 ELSE 8)
    /\ (DataQueried(kAudioObjectPropertyControlList) /\ OfOutputOnlyDevice
            /\ lastCall.scope = kAudioObjectPropertyScopeOutput)
         => lastCall.outData = << 8, 9 >>
    /\ DataQueried(kAudioObjectPropertyControlList)
         => /\ lastCall.outDataSize =
                   GetDevicePropertyDataSize(lastCall.object, lastCall.selector, lastCall.scope)
            /\ \A i \in 1..Len(lastCall.outData) :
                   \E j \in 1..Len(ObjectListOf(lastCall.object)) :
                       /\ ObjectListOf(lastCall.object)[j].id = lastCall.outData[i]
                       /\ ObjectListOf(lastCall.object)[j].type = kObjectType_Control
                       /\ \/ lastCall.scope = kAudioObjectPropertyScopeGlobal
                          \/ ObjectListOf(lastCall.object)[j].scope = lastCall.scope

\* ControlList of the output-only kObjectID_Device was fetched in Output scope
C19_Witness ==
    /\ DataQueried(kAudioObjectPropertyControlList)
    /\ OfOutputOnlyDevice
    /\ lastCall.scope = kAudioObjectPropertyScopeOutput
    /\ Len(lastCall.outData) > 2

C21_LazyClockAdvance ==
    [][LET ticksPerPeriod ==
               kDevice_RingBufferSize *
                   (IF gClockSource_Value > 0 THEN gDevice_AdjustedTicksPerFrame
                                              ELSE gDevice_HostTicksPerFrame)
           nextBoundary == gDevice_AnchorHostTime + gDevice_PreviousTicks + ticksPerPeriod
       IN /\ BlackHole_GetZeroTimeStamp(kObjectID_Device) =>
                 /\ IF hostTime >= nextBoundary
                    THEN /\ gDevice_NumberTimeStamps' = gDevice_NumberTimeStamps + 1
                         /\ gDevice_PreviousTicks' = gDevice_PreviousTicks + ticksPerPeriod
                    ELSE UNCHANGED << gDevice_NumberTimeStamps, gDevice_PreviousTicks >>
                 /\ zeroTimeStamp'.seed = 1
          /\ \/ UNCHANGED << gDevice_NumberTimeStamps, gDevice_PreviousTicks >>
             \/ BlackHole_GetZeroTimeStamp(kObjectID_Device)
             \/ \E d \in DeviceIDs :
                    /\ gDevice_IOIsRunning = 0
                    /\ gDevice2_IOIsRunning = 0
                    /\ BlackHole_StartIO(d)
                    /\ gDevice_NumberTimeStamps' = 0
                    /\ gDevice_PreviousTicks' = 0]_vars

\* the clock has advanced by a period of the adjustable clock source
C21_Witness ==
    /\ lastCall.op = "GetZeroTimeStamp"
    /\ gClockSource_Value > 0
    /\ gDevice_NumberTimeStamps >= 1
    /\ gDevice_PreviousTicks % (kDevice_RingBufferSize * gDevice_HostTicksPerFrame) # 0

(***************************************************************************)
(* Properties: silence on the read path                                    *)
(***************************************************************************)
\* the step is a ReadInput cycle that returned without error
ReadDone ==
    /\ lastCall'.op = kAudioServerPlugInIOOperationReadInput
    /\ lastCall'.status = kAudioHardwareNoError

\* C22: a ReadInput cycle returns all zeros when mute is on or when no write is recent
\* enough (lastOutputSampleTime - frameCount < input sample time); of consecutive
\* silent read cycles with no WriteMix in between, only the first, the one that follows
\* a WriteMix, zeroes the ring buffer, and the others leave it untouched.
C22_SilencePolicy ==
    [][ReadDone =>
          LET quiet == \/ gMute_Master_Value
                       \/ lastOutputSampleTime - lastCall'.frames < lastCall'.sampleTime
              zeroed == \A i \in 1..Len(gRingBuffer') : gRingBuffer'[i] = 0
          IN /\ quiet =>
                   \A j \in 1..(lastCall'.frames * kNumber_Of_Channels) :
                       lastCall'.ioMainBuffer[j] = 0
             /\ ( /\ quiet
                  /\ lastCall.op = kAudioServerPlugInIOOperationWriteMix
                  /\ lastCall.status = kAudioHardwareNoError ) => zeroed
             /\ ( /\ quiet
                  /\ lastCall.op = kAudioServerPlugInIOOperationReadInput
                  /\ lastCall.status = kAudioHardwareNoError
                  /\ lastCall.silent ) => UNCHANGED gRingBuffer
             /\ ~quiet => UNCHANGED gRingBuffer]_vars

\* a read was silenced by mute alone, right after a write that it would have returned,
\* and it has zeroed the ring buffer
C22_Witness ==
    /\ lastCall.op = kAudioServerPlugInIOOperationReadInput
    /\ lastCall.status = kAudioHardwareNoError
    /\ lastCall.silent
    /\ gMute_Master_Value
    /\ lastOutputSampleTime - lastCall.frames >= lastCall.sampleTime
    /\ isBufferClear
    /\ gRingBuffer # NULL
    /\ \A i \in 1..Len(gRingBuffer) : gRingBuffer[i] = 0

(***************************************************************************)
(* Properties: the clock source selector                                   *)
(***************************************************************************)
\* C23: setting the clock source selector to an item index outside {0, 1} is rejected
\* with an error, leaves the selector value unchanged and asks the host for no
\* configuration change.
C23_ClockSourceValidated ==
    [][( /\ lastCall'.op = "SetClockSource"
         /\ lastCall' # lastCall
         /\ lastCall'.value \notin {0, 1} ) =>
           /\ lastCall'.status # kAudioHardwareNoError
           /\ UNCHANGED << gClockSource_Value, configRequests >>]_vars

\* item 2 was set while the selector was 0: the selector is 1 and a request is pending
C23_Witness ==
    /\ lastCall.op = "SetClockSource"
    /\ lastCall.value = 2
    /\ lastCall.status = kAudioHardwareNoError
    /\ gClockSource_Value = 1
    /\ configRequests[ChangeAction_EnablePitchControl] > 0
    /\ ~gPitch_Adjust_Enabled

\* the ticks of a zero time stamp period, as BlackHole_GetZeroTimeStamp takes them
TicksPerPeriodInUse ==
    kDevice_RingBufferSize *
        (IF gClockSource_Value > 0 THEN gDevice_AdjustedTicksPerFrame
                                   ELSE gDevice_HostTicksPerFrame)

\* C24: a clock source selection request only stores the requested item as pending:
\* the setter changes neither the selector value the getter reports nor the ticks per
\* period GetZeroTimeStamp uses; they change when PerformDeviceConfigurationChange runs.
C24_ClockSourcePending ==
    [][\A item \in {0, 1} :
          SetControl_ClockSource(item) =>
              /\ UNCHANGED gClockSource_Value
              /\ TicksPerPeriodInUse' = TicksPerPeriodInUse]_vars

\* the clock has advanced by the adjusted period while the request to enable the pitch
\* control was still waiting for PerformDeviceConfigurationChange
C24_Witness ==
    /\ lastCall.op = "GetZeroTimeStamp"
    /\ gClockSource_Value = 1
    /\ configRequests[ChangeAction_EnablePitchControl] > 0
    /\ ~gPitch_Adjust_Enabled
    /\ gDevice_NumberTimeStamps >= 1
    /\ gDevice_PreviousTicks % (kDevice_RingBufferSize * gDevice_HostTicksPerFrame) # 0

(***************************************************************************)
(* Properties: the derived clock parameters                                *)
(***************************************************************************)
\* C29: as the pitch ranges over [0, 1] the adjusted ticks per frame deviate from the
\* host ticks per frame over the full range of plus or minus 2%: they are 1.02 times
\* the host ticks per frame at pitch 0 and 0.98 times at pitch 1.
C29_PitchRange ==
    /\ gPitch_Adjust = 0 =>
           100 * gDevice_AdjustedTicksPerFrame = 102 * gDevice_HostTicksPerFrame
    /\ gPitch_Adjust = PitchOne =>
           100 * gDevice_AdjustedTicksPerFrame = 98 * gDevice_HostTicksPerFrame

\* the pitch was set to 0 and the adjusted ticks per frame are 1.01 times the host
\* ticks per frame
C29_Witness ==
    /\ lastCall.op = "SetPitch"
    /\ gPitch_Adjust = 0
    /\ 100 * gDevice_AdjustedTicksPerFrame = 101 * gDevice_HostTicksPerFrame

\* C30: in every state reachable after Initialize by sample rate requests, Perform,
\* Abort, pitch changes and clock source changes, the host ticks per frame are the
\* host clock frequency divided by the nominal sample rate and are positive, and the
\* adjusted ticks per frame are positive and equal the pitch formula applied to the
\* current host ticks per frame and the current pitch.
C30_DerivedClockParameters ==
    /\ gDevice_SampleRate > 0
    /\ gDevice_HostTicksPerFrame = HostClockFrequency \div gDevice_SampleRate
    /\ gDevice_HostTicksPerFrame > 0
    /\ gDevice_AdjustedTicksPerFrame > 0
    /\ gDevice_AdjustedTicksPerFrame =
           gDevice_HostTicksPerFrame
               - ((gDevice_HostTicksPerFrame \div 100) * (2 * gPitch_Adjust - PitchOne))
                     \div PitchOne

\* the device was moved to 96000 with the pitch at 1 and the clock source at 1
C30_Witness ==
    /\ lastCall.op = "Perform"
    /\ lastCall.action = ChangeAction_SetSampleRate
    /\ lastCall.status = kAudioHardwareNoError
    /\ gDevice_SampleRate = 96000
    /\ gDevice_HostTicksPerFrame = HostClockFrequency \div 96000
    /\ gPitch_Adjust = PitchOne
    /\ gClockSource_Value = 1
    /\ gDevice_AdjustedTicksPerFrame < gDevice_HostTicksPerFrame

(***************************************************************************)
(* Properties: the two devices                                             *)
(***************************************************************************)
\* the mute flag and the gain BlackHole_DoIOOperation applies to a read cycle of a
\* device: the same two globals, whatever inDeviceObjectID is
ReadCycleMute(inDeviceObjectID) == gMute_Master_Value
ReadCycleGain(inDeviceObjectID) == gVolume_Master_Value

\* C28: changing the mute flag or the volume through a control of one device leaves
\* the mute flag and the gain applied to the read cycles of the other device as they
\* were, and StartIO and StopIO on one device never change the run counter of the
\* other.
C28_PerDeviceMuteAndVolume ==
    [][ /\ lastCall'.op \in {"SetMute", "SetVolume"} =>
               \E other \in DeviceIDs :
                   /\ ReadCycleMute(other)' = ReadCycleMute(other)
                   /\ ReadCycleGain(other)' = ReadCycleGain(other)
        /\ \A d \in DeviceIDs :
               (lastCall'.op \in {"StartIO", "StopIO"} /\ lastCall'.device = d) =>
                   \A other \in DeviceIDs \ {d} : Running(other)' = Running(other) ]_vars

\* only the second device runs, and its read cycle was silenced by the mute flag alone
C28_Witness ==
    /\ lastCall.op = kAudioServerPlugInIOOperationReadInput
    /\ lastCall.status = kAudioHardwareNoError
    /\ lastCall.silent
    /\ Running(kObjectID_Device) = 0
    /\ Running(kObjectID_Device2) > 0
    /\ gMute_Master_Value
    /\ lastOutputSampleTime - lastCall.frames >= lastCall.sampleTime

(***************************************************************************)
(* Properties: the two mutexes                                             *)
(***************************************************************************)
\* C25: a ReadInput cycle reads the mute flag and the volume gain while its thread
\* holds gPlugIn_StateMutex, and the thread does not hold the mutex while it clears
\* the ring buffer.
C25_StateLockDiscipline ==
    [][\A t \in Threads :
          \* the silence test reads gMute_Master_Value
          /\ (threads[t] = Idle /\ threads'[t].pc \in {"Read_FlagTest", "Read_Copy"}) =>
                 gPlugIn_StateMutex = t
          \* vDSP_vsmul reads gVolume_Master_Value
          /\ (threads[t].pc = "Read_Copy" /\ threads'[t] = Idle) =>
                 gPlugIn_StateMutex = t
          /\ (threads[t].pc = "Read_Clear" /\ threads'[t].pc = "Read_SetFlag") =>
                 gPlugIn_StateMutex # t]_vars

\* a read cycle has made its silence test and will copy, holding no mutex, while
\* another thread holds gPlugIn_StateMutex inside the mute setter
C25_Witness ==
    \E t \in Threads, u \in Threads :
        /\ threads[t].pc = "Read_Copy"
        /\ gPlugIn_StateMutex # t
        /\ threads[u].pc = "SetMute_Locked"
        /\ threads[u].value = 1
        /\ gPlugIn_StateMutex = u
        /\ ~gMute_Master_Value

\* C26: every write and every read of gDevice_AnchorHostTime, gDevice_PreviousTicks
\* and gDevice_NumberTimeStamps is made by a thread that holds gDevice_IOMutex, so
\* BlackHole_GetZeroTimeStamp never runs its locked part while a BlackHole_StartIO on
\* another thread is in the middle of resetting the clock.
C26_ClockLockDiscipline ==
    [][\A t \in Threads :
          /\ ( /\ threads[t].pc \in {"StartIO_ResetStamps", "StartIO_ResetAnchor",
                                     "StartIO_ResetTicks"}
               /\ threads'[t] # threads[t] ) =>
                 gDevice_IOMutex = t
          /\ (threads[t].pc = "GetZeroTimeStamp_Locked" /\ threads'[t] = Idle) =>
                 /\ gDevice_IOMutex = t
                 /\ \A u \in Threads :
                        threads[u].pc \notin {"StartIO_ResetAnchor",
                                              "StartIO_ResetTicks"}]_vars

\* BlackHole_GetZeroTimeStamp holds gDevice_IOMutex and is about to read the clock,
\* while a BlackHole_StartIO that holds gPlugIn_StateMutex has zeroed the time stamp
\* counter and has not written the anchor yet
C26_Witness ==
    \E t \in Threads, u \in Threads :
        /\ threads[t].pc = "GetZeroTimeStamp_Locked"
        /\ gDevice_IOMutex = t
        /\ threads[u].pc = "StartIO_ResetAnchor"
        /\ gPlugIn_StateMutex = u
        /\ gDevice_NumberTimeStamps = 0
        /\ gDevice_AnchorHostTime # hostTime

C31_RateInWhitelist ==
    /\ \E i \in 1..Len(kDevice_SampleRates) : gDevice_SampleRate = kDevice_SampleRates[i]
    /\ [][ /\ \E i \in 1..Len(kDevice_SampleRates) :
                  gDevice_SampleRate' = kDevice_SampleRates[i]
           /\ ( /\ gDevice_RequestedSampleRate = 0
                /\ lastCall'.op = "Perform"
                /\ lastCall'.action = ChangeAction_SetSampleRate ) =>
                  /\ lastCall'.status # kAudioHardwareNoError
                  /\ UNCHANGED << gDevice_SampleRate, gDevice_HostTicksPerFrame,
                                  gDevice_AdjustedTicksPerFrame >> ]_vars

\* Perform(SetSampleRate) was called after only unsupported rates had been asked for:
\* it has failed and the device is still at 48000
C31_Witness ==
    /\ lastCall.op = "Perform"
    /\ lastCall.action = ChangeAction_SetSampleRate
    /\ lastCall.status = kAudioHardwareBadObjectError
    /\ gDevice_RequestedSampleRate = 0
    /\ gDevice_SampleRate = 48000
    /\ gDevice_HostTicksPerFrame = HostClockFrequency \div 48000

(***************************************************************************)
(* Properties: the shared clock rate                                       *)
(***************************************************************************)
\* C32: with a host that stops the IO of the device named in a configuration change
\* request before it answers the request, the nominal sample rate and the host ticks
\* per frame never change while the run counter of Device or of Device2 is greater
\* than 0, whichever device's setter asked for the change.
C32_RateFixedWhileRunning ==
    [][(gDevice_IOIsRunning > 0 \/ gDevice2_IOIsRunning > 0) =>
           UNCHANGED << gDevice_SampleRate, gDevice_HostTicksPerFrame >>]_vars

\* the rate was asked for through Device2, and Perform has moved the clock to 96000
\* while Device2 runs
C32_Witness ==
    /\ lastCall.op = "Perform"
    /\ lastCall.action = ChangeAction_SetSampleRate
    /\ lastCall.status = kAudioHardwareNoError
    /\ gDevice_IOIsRunning = 0
    /\ gDevice2_IOIsRunning > 0
    /\ gDevice_SampleRate = 96000
    /\ gDevice_HostTicksPerFrame = HostClockFrequency \div 96000

(***************************************************************************)
(* Properties: IO sessions                                                 *)
(***************************************************************************)
\* C33: in an IO session, from the StartIO that allocates the ring buffer to the StopIO
\* that frees it, every ReadInput cycle made before the first WriteMix cycle of the
\* session returns all zeros, whatever lastOutputSampleTime and isBufferClear have
\* kept from earlier sessions.
C33_NoStaleAudio ==
    [][( /\ lastCall'.op = kAudioServerPlugInIOOperationReadInput
         /\ lastCall'.status = kAudioHardwareNoError
         /\ ~writtenInSession' ) =>
           \A j \in 1..(lastCall'.frames * kNumber_Of_Channels) :
               lastCall'.ioMainBuffer[j] = 0]_vars

\* a read of the second session, before any write of that session, was not taken as
\* silent, because lastOutputSampleTime is still that of the first session
C33_Witness ==
    /\ lastCall.op = kAudioServerPlugInIOOperationReadInput
    /\ lastCall.status = kAudioHardwareNoError
    /\ ~writtenInSession
    /\ ~lastCall.silent
    /\ ~isBufferClear
    /\ lastOutputSampleTime > 0
    /\ \A j \in 1..(lastCall.frames * kNumber_Of_Channels) : lastCall.ioMainBuffer[j] = 0

(***************************************************************************)
(* Properties: the ring buffer during the IO cycles of several clients     *)
(***************************************************************************)
\* the places of a ReadInput or WriteMix cycle
CyclePlaces == {"Read_FlagTest", "Read_Clear", "Read_SetFlag", "Read_Copy",
                "Write_Copy", "Write_Mark", "Write_SetFlag"}

InCycle(t) == threads[t].pc \in CyclePlaces

C35_ControlListStaysInTable ==
    DataQueried(kAudioObjectPropertyControlList) => ~lastCall.overran

\* the control list was fetched in Global scope with the reported size while the pitch
\* control is hidden
C35_Witness ==
    /\ DataQueried(kAudioObjectPropertyControlList)
    /\ lastCall.object \in DeviceIDs
    /\ lastCall.scope = kAudioObjectPropertyScopeGlobal
    /\ lastCall.inDataSize =
           GetDevicePropertyDataSize(lastCall.object, lastCall.selector, lastCall.scope)
    /\ ~gPitch_Adjust_Enabled
    /\ lastCall.outDataSize = lastCall.inDataSize

(***************************************************************************)
(* Properties: the instances of the companion application                  *)
(***************************************************************************)
\* C36: at most one instance of the application started by the client is alive at any
\* time, whatever the events, the disconnections and the reconnections; a Started
\* event never starts a second instance while an earlier one is still running
C36_OneInstance == Cardinality(processes) <= 1

\* the client listens again after a disconnection while the instance it started before
\* is still alive
C36_Witness ==
    /\ clientPC = "listen"
    /\ subprocessPID = 0 - 1
    /\ processes # {}
    /\ lastEvent.forked > 0

(***************************************************************************)
(* Properties: the argument vector of the application                      *)
(***************************************************************************)
\* main has built gAppArgv
VectorBuilt == clientPC \in {"connect", "listen"}

\* C37: for every argc >= 3 the vector built for the application holds
\* argv[2..argc-1] followed by a NULL terminator, and every write into it stays within
\* the array allocated for it
C37_ArgumentVector ==
    VectorBuilt =>
        /\ gAppArgv.outside = {}
        /\ Len(gAppArgv.cells) >= argc - 1
        /\ \A i \in 2..(argc - 1) : gAppArgv.cells[i - 1] = ArgvPointer(i)
        /\ gAppArgv.cells[argc - 1] = NULL

\* the vector built from a command line with one application argument
C37_Witness ==
    /\ VectorBuilt
    /\ argc = 4
    /\ gAppArgv.cells = << ArgvPointer(2), ArgvPointer(3), NULL >>
    /\ gAppArgv.outside = {}

(***************************************************************************)
(* Properties: the zero time stamp and the host clock                      *)
(***************************************************************************)
\* C38: a zero time stamp is never in the future: with the anchor taken at the first
\* StartIO of the session and a monotonic host clock, every host time that
\* GetZeroTimeStamp returns is at most the host time at which it was called
C38_ZeroTimeStampNotInFuture ==
    /\ zeroTimeStamp.valid => zeroTimeStamp.hostTime <= hostTime
    /\ [][( lastCall'.op = "GetZeroTimeStamp"
            /\ lastCall'.status = kAudioHardwareNoError
            /\ zeroTimeStamp' # zeroTimeStamp ) =>
               zeroTimeStamp'.hostTime <= hostTime]_vars

\* GetZeroTimeStamp has advanced the clock of a session whose anchor was taken after
\* the host clock had moved, and returned the very host time of the call
C38_Witness ==
    /\ lastCall.op = "GetZeroTimeStamp"
    /\ lastCall.status = kAudioHardwareNoError
    /\ gDevice_IOIsRunning > 0
    /\ gDevice_AnchorHostTime > BootTime
    /\ gDevice_NumberTimeStamps >= 1
    /\ zeroTimeStamp.valid
    /\ zeroTimeStamp.hostTime > gDevice_AnchorHostTime

(***************************************************************************)
(* Properties: progress of the polled clock                                *)
(***************************************************************************)
\* the last host time the bounded host clock reaches
EndOfTime == BootTime + MaxTicks * TickStep

\* the most host ticks a ring buffer period can take at the current sample rate:
\* the pitch at its lowest
SlowestTicksPerRingBuffer ==
    AdjustedTicksPerFrame(gDevice_HostTicksPerFrame, 0) * kDevice_RingBufferSize

\* a session is running and n of its periods fit before the end of the host clock
RoomForStamps(n) ==
    /\ gDevice_IOIsRunning > 0
    /\ gDevice_AnchorHostTime + n * SlowestTicksPerRingBuffer <= EndOfTime

\* C39: in a running session, with the host time advancing and GetZeroTimeStamp called
\* again and again (weak fairness on both), the sequence counter
\* gDevice_NumberTimeStamps eventually reaches every n: the polled clock never gets
\* stuck.  The host clock of the model ends at EndOfTime, so n ranges over the
\* periods that fit before it; a session that is stopped owes no further stamp.
C39_ClockProgress ==
    \A n \in 1..MaxTicks :
        RoomForStamps(n) ~> (gDevice_NumberTimeStamps >= n \/ gDevice_IOIsRunning = 0)

\* a running session at 96000 Hz in which two periods fit has reached its second stamp
C39_Witness ==
    /\ RoomForStamps(2)
    /\ gDevice_SampleRate = 96000
    /\ gDevice_NumberTimeStamps = 2
    /\ lastCall.op = "GetZeroTimeStamp"

=============================================================================
